---- MODULE Spec2Model ----
(***************************************************************************)
(* Deposit detection, confirmation and settlement pipeline of the staking  *)
(* backend (src/depositListener.js, the catch-up job of cronJobs.js), and  *)
(* the connection supervisor of the chain listener.                        *)
(*                                                                         *)
(* The store is MongoDB behind Mongoose.  Every store call of the source   *)
(* is one atomic step of the model; the awaits between two store calls are *)
(* the points where other tasks interleave.                                *)
(*   - findByIdAndUpdate(id, {$inc,$set,$push}) is one atomic update that  *)
(*     is filtered by _id alone.                                           *)
(*   - doc.save() writes the paths modified since the read: $set of the    *)
(*     positional paths deposits.<i>.<field>, $push for deposits.push,     *)
(*     $set of the whole array for creditsHistory = [...].  The version    *)
(*     key is not among the selected fields of any query of the listener,  *)
(*     so no save is filtered by it.                                       *)
(*   - the unique index on deposits.txHash rejects a write that would put  *)
(*     one txHash into two documents; it does not compare the elements of  *)
(*     one document's array with each other.                               *)
(* Money is counted in cents, crypto amounts in thousandths of a coin.     *)
(***************************************************************************)
EXTENDS Integers, Sequences, FiniteSets, TLC

VARIABLES
    db,                 \* the users collection: user -> credits, deposits, creditsHistory
    recs,               \* calls of recordDetectedDeposit, in call order
    mons,               \* per-record checks started by monitorConfirmations ticks
    setts,              \* calls of processConfirmedDeposit, in call order
    alerts,             \* subjects passed to notifyAdminOfError so far
    adminWalletSet,     \* process.env.ADMIN_WALLET_ADDRESS is set
    websocketUrlSet,    \* ALCHEMY_WEBSOCKET_URL || INFURA_WEBSOCKET_URL is set
    provider,           \* the module variable provider: 0 (null) or a provider id
    liveProviders,      \* providers created and not destroyed, with their listeners
    liveTimers,         \* interval timers armed and not cleared: [id, kind]
    userAddressRefreshInterval,   \* timer id or 0 (null)
    confirmationMonitorInterval,  \* timer id or 0 (null)
    websocketProviderConnected,   \* the connected flag
    pendingRestarts,    \* setTimeout(startDepositListener, 5000) armed and not yet fired
    starts,             \* calls of startDepositListener, in call order
    nextId,             \* next provider / timer id
    reqs,               \* calls of the HTTP handlers that change a balance, in call order
    registered,         \* accounts in the store with isActive: true
    userAddresses,      \* the module variable userAddresses (a Set of lower-case addresses)
    usdtFilter,         \* the to-addresses of the Transfer filter the USDT listener was attached with
    loads,              \* calls of loadUserAddresses, in call order
    skippedTicks,       \* calls of monitorConfirmations that returned at the connected test
    priceCache,         \* priceCache.data of the price fetcher: asset key -> entry
    clock,              \* Date.now(), in units of half the cache TTL
    priceCalls,         \* calls of getPriceInUSD, in call order
    sweepCalls,         \* calls of sweepEth and sweepUsdt, in call order
    notifyCalls,        \* calls of notifyAdminOfError with their outcome, in call order
    escaped,            \* rejections no handler took: the unhandledRejection events
    shutdownCalled,     \* shutdownDepositListener has returned
    isDailyRewardsJobRunning,   \* the flag of distributeDailyRewards
    today,              \* the UTC day of Date.now(), as a day number
    rewardRun,          \* the run of distributeDailyRewards in progress: [pc, now]
    rewardTasks,        \* the eachAsync callbacks of the run so far, one per user delivered
    skippedRuns,        \* calls of distributeDailyRewards that returned at the flag test
    listeners,          \* block and Transfer listeners attached and not removed: [provider, kind, filter]
    notifications       \* calls of the block handler and of the Transfer handler, in call order

listenerVars == <<websocketUrlSet, provider, liveProviders, liveTimers,
                  userAddressRefreshInterval, confirmationMonitorInterval,
                  pendingRestarts, starts, nextId>>
registryVars == <<registered, userAddresses, usdtFilter, loads>>
serviceVars == <<priceCache, clock, priceCalls, sweepCalls, notifyCalls>>
rewardVars == <<isDailyRewardsJobRunning, today, rewardRun, rewardTasks, skippedRuns>>
handlerVars == <<listeners, notifications>>
vars == <<db, recs, mons, setts, alerts, adminWalletSet,
          websocketUrlSet, provider, liveProviders, liveTimers,
          userAddressRefreshInterval, confirmationMonitorInterval,
          websocketProviderConnected, pendingRestarts, starts, nextId,
          reqs, registered, userAddresses, usdtFilter, loads, skippedTicks,
          priceCache, clock, priceCalls, sweepCalls, notifyCalls, escaped,
          shutdownCalled, isDailyRewardsJobRunning, today, rewardRun, rewardTasks,
          skippedRuns, listeners, notifications>>

(***************************************************************************)
(* Bounds of the model.                                                    *)
(***************************************************************************)
MaxRecordCalls == 2
MaxMonitorChecks == 2
MaxSettleCalls == 2
MaxStarts == 3
MaxRequests == 2
MaxLoads == 2
MaxSkippedTicks == 2
MaxNotifyCalls == 2
MaxSweepCalls == 1
MaxPriceCalls == 3
MaxClock == 3
MaxDay == 8
MaxSkippedRuns == 1
MaxNotifications == 2

(***************************************************************************)
(* Configuration and the small world the model runs in.                    *)
(***************************************************************************)
\* Both are read from the environment; MIN_DEPOSIT_USD is the default 5.00 in
\* cents, CREDITS_HISTORY_LIMIT is set to 1 so that one credit after another
\* already exceeds it and the trim of processConfirmedDeposit runs.
MIN_DEPOSIT_USD == 500
CREDITS_HISTORY_LIMIT == 1

Users == {"u1", "u2", "u3"}
UserOrder == <<"u1", "u2", "u3">>
TxHashes == {"t1", "t2"}

\* Addresses as the chain reports them (checksummed) and as String.toLowerCase
\* returns them.
ChainAddresses == {"0xA1", "0xB2", "0xC3"}
toLowerCase(a) ==
    CASE a = "0xA1" -> "0xa1"
      [] a = "0xB2" -> "0xb2"
      [] a = "0xC3" -> "0xc3"
      [] OTHER -> a

\* walletAddress as stored: u1 and u2 hold a value equal to its lower-case form,
\* u3 holds the mixed-case checksum form that registration stores.
walletAddress(u) ==
    CASE u = "u1" -> "0xa1"
      [] u = "u2" -> "0xb2"
      [] u = "u4" -> "0xzz"
      [] OTHER -> "0xC3"

\* Accounts whose document holds no privateKey.
KeylessUsers == {"u2"}

\* Variant: every account holds a key.
HasPrivateKeyAlways(u) == TRUE
\* user.privateKey is set: present on u1 and u3 and missing on u2.
HasPrivateKey(u) == u \notin KeylessUsers

CryptoAmounts == {7, 10}
\* Outcomes of getPriceInUSD: a price in dollars, 0 (nothing usable), -1 (it throws).
PriceOutcomes == {-1, 0, 200, 3000}

\* Math.floor((cryptoAmount * price) * 100) / 100, in cents, cryptoAmount in 1/1000.
UsdValue(cryptoAmount, price) == (cryptoAmount * price) \div 10


(***************************************************************************)
(* Store queries.                                                          *)
(***************************************************************************)
NoUser == "none"

\* Does the document of u match { 'deposits.txHash': tx } ?
HoldsTx(u, tx) == \E i \in DOMAIN db[u].deposits : db[u].deposits[i].txHash = tx

\* User.findOne({ 'deposits.txHash': tx })
FindByTxHash(tx) ==
    IF \E u \in Users : HoldsTx(u, tx)
    THEN LET k == CHOOSE k \in DOMAIN UserOrder :
                     /\ HoldsTx(UserOrder[k], tx)
                     /\ \A j \in 1..(k - 1) : ~HoldsTx(UserOrder[j], tx)
         IN UserOrder[k]
    ELSE NoUser

\* User.findOne({ walletAddress: addr })
FindByWalletAddress(addr) ==
    IF \E u \in Users : walletAddress(u) = addr
    THEN CHOOSE u \in Users : walletAddress(u) = addr
    ELSE NoUser

\* user.deposits.findIndex(d => d.txHash === tx), 1-based; 0 when there is none
FindIndex(deposits, tx) ==
    IF \E i \in DOMAIN deposits : deposits[i].txHash = tx
    THEN CHOOSE i \in DOMAIN deposits :
             /\ deposits[i].txHash = tx
             /\ \A j \in 1..(i - 1) : deposits[j].txHash # tx
    ELSE 0

\* The $unwind / $project of the aggregations: one row per deposit record.
Rows(u) == [i \in DOMAIN db[u].deposits |->
               [txHash |-> db[u].deposits[i].txHash, status |-> db[u].deposits[i].status]]
AllRows == Rows("u1") \o Rows("u2") \o Rows("u3")

IsPending(r) == r.status \in {"unconfirmed", "confirmed"}
IsUnconfirmed(r) == r.status = "unconfirmed"
IsConfirmed(r) == r.status = "confirmed"

\* The aggregation of monitorConfirmations and the one of depositCatchUpJob.
PendingDeposits == SelectSeq(AllRows, IsPending)
\* Variant: the catch-up job selects what the monitor selects.
DepositsToProcessPending == SelectSeq(AllRows, IsPending)
DepositsToProcess == SelectSeq(AllRows, IsConfirmed)

\* creditsHistory.slice(-limit)
SliceLast(h, limit) ==
    IF Len(h) > limit THEN SubSeq(h, Len(h) - limit + 1, Len(h)) ELSE h

(***************************************************************************)
(* Task records.                                                           *)
(***************************************************************************)
NewRecordCall(tx, amt, to) ==
    [txHash |-> tx, cryptoAmount |-> amt, toAddress |-> to, pc |-> "dedup",
     user |-> NoUser, usdValue |-> 0, result |-> "running"]

NewCheck(row) ==
    [txHash |-> row.txHash, pc |-> "wait", receipt |-> "none", user |-> NoUser, idx |-> 0]

NewSettle(tx) ==
    [txHash |-> tx, pc |-> "find", user |-> NoUser, idx |-> 0,
     readStatus |-> "none", creditsToAdd |-> 0, trimmed |-> <<>>, modified |-> FALSE,
     credited |-> FALSE, sweep |-> "none"]

\* A call that returned: its locals are gone, what it did stays on record.
Returned(t) ==
    [t EXCEPT !.pc = "done", !.user = NoUser, !.idx = 0, !.creditsToAdd = 0,
              !.trimmed = <<>>, !.modified = FALSE]
CheckReturned(c) == [c EXCEPT !.pc = "done", !.receipt = "none", !.user = NoUser, !.idx = 0]

SettleOfRow(row) == NewSettle(row.txHash)

Map(f(_), s) == [i \in DOMAIN s |-> f(s[i])]

(***************************************************************************)
(* notifyAdminOfError                                                      *)
(***************************************************************************)
\* The mail configuration of the process: the transporter exists (EMAIL_HOST,
\* EMAIL_USER and EMAIL_PASS were set), ADMIN_EMAIL_RECIPIENT is set.
MailConfigs == [transporter : BOOLEAN, recipient : BOOLEAN]

\* The error argument: an Error, null, an object JSON.stringify accepts, an
\* object it rejects (one that holds a cycle).
ErrorArgs == {"Error", "null", "object", "cyclic"}

\* await transporter.sendMail(mailOptions) resolves or rejects.
SendOutcomes == {"sent", "fails"}

\* errorDetails: message and stack of an Error; otherwise the JSON text, or, when
\* JSON.stringify threw, the string conversion of the argument.
ErrorDetails(error) ==
    IF error = "Error" THEN "message_and_stack"
    ELSE IF error = "cyclic" THEN "string_conversion"
    ELSE "json"

\* Variant: the catch block around sendMail throws the error on.
SendFailedRethrows(send) == "rejects"
\* The catch block around sendMail logs and does not re-throw.
SendFailed(send) == "returns"

\* How a call completes and which mail it hands to the transporter.
notifyAdminOfError(config, error, send) ==
    IF ~config.transporter THEN [completion |-> "returns", mail |-> "none"]
    ELSE IF ~config.recipient THEN [completion |-> "returns", mail |-> "none"]
    ELSE IF send = "sent" THEN [completion |-> "returns", mail |-> ErrorDetails(error)]
    ELSE [completion |-> SendFailed(send), mail |-> "lost"]

\* One call by any caller; the mail configuration is the same for every call.
NotifyCall(config, error, send) ==
    /\ Len(notifyCalls) < MaxNotifyCalls
    /\ \A n \in DOMAIN notifyCalls : notifyCalls[n].config = config
    /\ notifyCalls' = Append(notifyCalls,
           [config |-> config, error |-> error, send |-> send,
            result |-> notifyAdminOfError(config, error, send)])
    /\ UNCHANGED <<db, recs, mons, setts, alerts, adminWalletSet,
                   websocketProviderConnected, listenerVars, reqs, registryVars,
                   skippedTicks, rewardVars, handlerVars, priceCache, clock, priceCalls, sweepCalls, escaped,
                   shutdownCalled>>

\* The rejection an awaited notifyAdminOfError(subject, error) hands to a caller
\* that awaits it outside any try block: none unless some call can reject.
Rejection(subject, error) ==
    IF \E config \in MailConfigs, send \in SendOutcomes :
           notifyAdminOfError(config, error, send).completion = "rejects"
    THEN {subject}
    ELSE {}

(***************************************************************************)
(* recordDetectedDeposit                                                   *)
(***************************************************************************)
\* The block handler or the Transfer handler dispatches a transfer to the recorder.
RecordCall(tx, amt, to) ==
    /\ Len(recs) < MaxRecordCalls
    /\ recs' = Append(recs, NewRecordCall(tx, amt, to))
    /\ UNCHANGED <<serviceVars, handlerVars, rewardVars, escaped, shutdownCalled, db, mons, setts, alerts, adminWalletSet,
                   websocketProviderConnected, listenerVars,
                   reqs, registryVars, skippedTicks>>

\* existingDeposit = await User.findOne({ 'deposits.txHash': txHash })
RecordDedup(i) ==
    /\ recs[i].pc = "dedup"
    /\ recs' = [recs EXCEPT ![i] =
                  IF FindByTxHash(recs[i].txHash) # NoUser
                  THEN [@ EXCEPT !.pc = "done", !.result = "duplicate"]
                  ELSE [@ EXCEPT !.pc = "findUser"]]
    /\ UNCHANGED <<serviceVars, handlerVars, rewardVars, escaped, shutdownCalled, db, mons, setts, alerts, adminWalletSet,
                   websocketProviderConnected, listenerVars,
                   reqs, registryVars, skippedTicks>>

\* usdValue after the price branch; the alert each price failure raises
ValueAtPrice(amt, price) == IF price > 0 THEN UsdValue(amt, price) ELSE 0
PriceAlerts(price) ==
    IF price > 0 THEN {}
    ELSE IF price = 0 THEN {"Deposit Price Fetch Failed (Recording)"}
    ELSE {"Deposit Price Fetch Error (Recording)"}

\* Variant: the minimum-value filter lets every value through.
BelowMinimumNever(usdValue) == FALSE
\* if (usdValue < MIN_DEPOSIT_USD) return
BelowMinimum(usdValue) == usdValue < MIN_DEPOSIT_USD

\* user = await User.findOne({ walletAddress: toAddress.toLowerCase() }), then the
\* valuation and the minimum-value filter
RecordFindUser(i, price) ==
    /\ recs[i].pc = "findUser"
    /\ LET u == FindByWalletAddress(toLowerCase(recs[i].toAddress))
           v == ValueAtPrice(recs[i].cryptoAmount, price)
       IN IF u = NoUser
          THEN /\ alerts' = alerts \cup {"Deposit to Unassigned Address"}
               /\ recs' = [recs EXCEPT ![i].pc = "done", ![i].result = "no_user"]
          ELSE /\ alerts' = alerts \cup PriceAlerts(price)
               /\ recs' = [recs EXCEPT ![i] =
                             IF BelowMinimum(v)
                             THEN [@ EXCEPT !.pc = "done", !.result = "below_minimum",
                                            !.user = u, !.usdValue = v]
                             ELSE [@ EXCEPT !.pc = "save", !.user = u, !.usdValue = v]]
    /\ UNCHANGED <<serviceVars, handlerVars, rewardVars, escaped, shutdownCalled, db, mons, setts, adminWalletSet,
                   websocketProviderConnected, listenerVars,
                   reqs, registryVars, skippedTicks>>

NewDeposit(tx, usdValue) ==
    [txHash |-> tx, usdValue |-> usdValue, status |-> "unconfirmed",
     confirmedAt |-> "unset", creditedAt |-> "unset", error |-> "",
     sweepTxHash |-> "", sweepError |-> ""]

\* The unique index on deposits.txHash: the write is rejected when another
\* document already holds the key.
UniqueIndexRejects(u, tx) == \E o \in Users \ {u} : HoldsTx(o, tx)

\* user.deposits.push({...}); await user.save()
RecordSave(i) ==
    /\ recs[i].pc = "save"
    /\ LET u == recs[i].user
           tx == recs[i].txHash
       IN IF UniqueIndexRejects(u, tx)
          THEN /\ alerts' = alerts \cup {"Deposit Recording Error"}
               /\ recs' = [recs EXCEPT ![i].pc = "done", ![i].result = "error"]
               /\ db' = db
          ELSE /\ db' = [db EXCEPT ![u].deposits =
                            Append(@, NewDeposit(tx, recs[i].usdValue))]
               /\ recs' = [recs EXCEPT ![i].pc = "done", ![i].result = "recorded"]
               /\ alerts' = alerts
    /\ UNCHANGED <<serviceVars, handlerVars, rewardVars, escaped, shutdownCalled, mons, setts, adminWalletSet,
                   websocketProviderConnected, listenerVars,
                   reqs, registryVars, skippedTicks>>


(***************************************************************************)
(* monitorConfirmations                                                    *)
(***************************************************************************)
\* if (!websocketProviderConnected) return;  The tick goes on past its first
\* statement only while the flag is set.
MonitorRunsAlways(connected) == TRUE
MonitorRuns(connected) == connected

\* One tick.  With the flag unset it returns at once.  Otherwise: the
\* aggregation, then one concurrent check per row.  A row read as confirmed
\* dispatches settlement at once; a row read as unconfirmed starts a check that
\* first waits for the receipt.
MonitorTick ==
    /\ IF ~MonitorRuns(websocketProviderConnected)
       THEN /\ skippedTicks < MaxSkippedTicks
            /\ skippedTicks' = skippedTicks + 1
            /\ UNCHANGED <<mons, setts>>
       ELSE /\ PendingDeposits # <<>>
            /\ LET checks == Map(NewCheck, SelectSeq(PendingDeposits, IsUnconfirmed))
                   redo == Map(SettleOfRow, SelectSeq(PendingDeposits, IsConfirmed))
               IN /\ Len(mons) + Len(checks) <= MaxMonitorChecks
                  /\ Len(setts) + Len(redo) <= MaxSettleCalls
                  /\ mons' = mons \o checks
                  /\ setts' = setts \o redo
            /\ skippedTicks' = skippedTicks
    /\ UNCHANGED <<serviceVars, handlerVars, rewardVars, escaped, shutdownCalled, db, recs, alerts, adminWalletSet,
                   websocketProviderConnected, listenerVars,
                   reqs, registryVars>>

\* Outcomes of httpProvider.waitForTransaction(txHash, CONFIRMATIONS_REQUIRED, 600000):
\* a receipt with enough confirmations, a receipt with fewer, null, an exception.
ReceiptOutcomes == {"enough", "low", "null", "throws"}

\* if (depositEntry && depositEntry.status === 'unconfirmed')
StillUnconfirmed(status) == status = "unconfirmed"

\* receipt = await waitForTransaction(...), then, in the branch of a receipt with
\* enough confirmations and in the branch of null alike,
\* user = await User.findOne({ 'deposits.txHash': txHash }); depositEntry = find(...)
MonitorLookup(i, receipt) ==
    /\ mons[i].pc = "wait"
    /\ LET u == FindByTxHash(mons[i].txHash)
           k == IF u = NoUser THEN 0 ELSE FindIndex(db[u].deposits, mons[i].txHash)
       IN mons' = [mons EXCEPT ![i] =
                     IF /\ receipt \in {"enough", "null"}
                        /\ k # 0
                        /\ StillUnconfirmed(db[u].deposits[k].status)
                     THEN [@ EXCEPT !.pc = "save", !.receipt = receipt,
                                    !.user = u, !.idx = k]
                     ELSE CheckReturned(@)]
    /\ UNCHANGED <<serviceVars, handlerVars, rewardVars, escaped, shutdownCalled, db, recs, setts, alerts, adminWalletSet,
                   websocketProviderConnected, listenerVars,
                   reqs, registryVars, skippedTicks>>

\* The fields user.save() sets on deposits.<idx> after the confirmed branch and
\* after the timeout branch.
MarkConfirmed(d) == [d EXCEPT !.status = "confirmed", !.confirmedAt = "set"]
MarkFailed(d) ==
    [d EXCEPT !.status = "failed",
              !.error = "Transaction not found or confirmed within timeout"]

\* await user.save(), then setImmediate(processConfirmedDeposit) or the alert
MonitorSave(i) ==
    /\ mons[i].pc = "save"
    /\ LET u == mons[i].user
           k == mons[i].idx
       IN IF mons[i].receipt = "enough"
          THEN /\ Len(setts) < MaxSettleCalls
               /\ db' = [db EXCEPT ![u].deposits[k] = MarkConfirmed(@)]
               /\ setts' = Append(setts, NewSettle(mons[i].txHash))
               /\ alerts' = alerts
          ELSE /\ db' = [db EXCEPT ![u].deposits[k] = MarkFailed(@)]
               /\ setts' = setts
               /\ alerts' = alerts \cup {"Deposit Confirmation Timeout"}
    /\ mons' = [mons EXCEPT ![i] = CheckReturned(@)]
    /\ UNCHANGED <<serviceVars, handlerVars, rewardVars, escaped, shutdownCalled, recs, adminWalletSet,
                   websocketProviderConnected, listenerVars,
                   reqs, registryVars, skippedTicks>>

(***************************************************************************)
(* depositCatchUpJob                                                       *)
(***************************************************************************)
CatchUp ==
    /\ LET calls == Map(SettleOfRow, DepositsToProcess)
       IN /\ Len(setts) + Len(calls) <= MaxSettleCalls
          /\ setts' = setts \o calls
    /\ UNCHANGED <<serviceVars, handlerVars, rewardVars, escaped, shutdownCalled, db, recs, mons, alerts, adminWalletSet,
                   websocketProviderConnected, listenerVars,
                   reqs, registryVars, skippedTicks>>

(***************************************************************************)
(* processConfirmedDeposit                                                 *)
(***************************************************************************)
\* Variant: the early return tests for credited alone.
AlreadyProcessedCreditedOnly(status) == status = "credited"

\* if (depositEntry.status === 'credited' || depositEntry.status === 'failed') return
AlreadyProcessed(status) == status \in {"credited", "failed"}

\* user = await User.findOne(...); findIndex; the status check
SettleFind(i) ==
    /\ setts[i].pc = "find"
    /\ LET u == FindByTxHash(setts[i].txHash)
           k == IF u = NoUser THEN 0 ELSE FindIndex(db[u].deposits, setts[i].txHash)
       IN setts' = [setts EXCEPT ![i] =
            IF k = 0 THEN Returned(@)
            ELSE IF AlreadyProcessed(db[u].deposits[k].status)
            THEN Returned([@ EXCEPT !.readStatus = db[u].deposits[k].status])
            ELSE [@ EXCEPT !.pc = "credit", !.user = u, !.idx = k,
                           !.readStatus = db[u].deposits[k].status,
                           !.creditsToAdd = db[u].deposits[k].usdValue]]
    /\ UNCHANGED <<serviceVars, handlerVars, rewardVars, escaped, shutdownCalled, db, recs, mons, alerts, adminWalletSet,
                   websocketProviderConnected, listenerVars,
                   reqs, registryVars, skippedTicks>>

DepositEntry(amount, tx) == [type |-> "deposit", amount |-> amount, tx |-> tx]

\* Does the filter of the credit update match the document?  The filter is the
\* _id alone: the status of deposits.<idx> is not part of it.
CreditFilterMatches(doc, k) == TRUE

\* The update document of findByIdAndUpdate: $inc credits, $set status and
\* creditedAt of deposits.<idx>, $push (sorted by date) onto creditsHistory.
CreditUpdate(doc, k, amount, tx) ==
    [doc EXCEPT !.credits = @ + amount,
                !.deposits[k].status = "credited",
                !.deposits[k].creditedAt = "set",
                !.creditsHistory = Append(@, DepositEntry(amount, tx))]

\* updateResult = await User.findByIdAndUpdate(...), then the length test of the trim
SettleCredit(i) ==
    /\ setts[i].pc = "credit"
    /\ LET u == setts[i].user
           k == setts[i].idx
       IN IF CreditFilterMatches(db[u], k)
          THEN LET doc == CreditUpdate(db[u], k, setts[i].creditsToAdd, setts[i].txHash)
               IN /\ db' = [db EXCEPT ![u] = doc]
                  /\ alerts' = alerts
                  /\ setts' = [setts EXCEPT ![i] =
                       IF Len(doc.creditsHistory) > CREDITS_HISTORY_LIMIT
                       THEN [@ EXCEPT !.pc = "trim", !.credited = TRUE, !.modified = TRUE,
                                      !.trimmed = SliceLast(doc.creditsHistory,
                                                            CREDITS_HISTORY_LIMIT)]
                       ELSE [@ EXCEPT !.pc = "sweep", !.credited = TRUE]]
          ELSE /\ db' = db
               /\ alerts' = alerts \cup {"Deposit Processing Error"}
               /\ setts' = [setts EXCEPT ![i] = Returned(@)]
    /\ UNCHANGED <<serviceVars, handlerVars, rewardVars, escaped, shutdownCalled, recs, mons, adminWalletSet,
                   websocketProviderConnected, listenerVars,
                   reqs, registryVars, skippedTicks>>

\* await updateResult.save() of the trimmed history; a failure is logged and the
\* document stays modified.
SettleTrimSave(i, ok) ==
    /\ setts[i].pc = "trim"
    /\ IF ok
       THEN /\ db' = [db EXCEPT ![setts[i].user].creditsHistory = setts[i].trimmed]
            /\ setts' = [setts EXCEPT ![i].pc = "sweep", ![i].modified = FALSE]
       ELSE /\ db' = db
            /\ setts' = [setts EXCEPT ![i].pc = "sweep"]
    /\ UNCHANGED <<serviceVars, handlerVars, rewardVars, escaped, shutdownCalled, recs, mons, alerts, adminWalletSet,
                   websocketProviderConnected, listenerVars,
                   reqs, registryVars, skippedTicks>>

\* Outcomes of sweepWallet: { success: true, txHash }, { success: false, reason },
\* a rejection.
SweepOutcomes == {"success", "failed", "throws"}

\* Is the identifier updatedUser, which the code reads after sweepWallet returned,
\* declared?  It is declared nowhere in depositListener.js: reading it throws a
\* ReferenceError inside the try block of the sweep.
UpdatedUserDeclared == FALSE

\* The sweep fields the success and the failure branch put on the deposit entry.
SweepDetails(d, outcome) ==
    IF outcome = "success" THEN [d EXCEPT !.sweepTxHash = "sweepTx"]
    ELSE [d EXCEPT !.sweepError = "reason"]

\* From the ADMIN_WALLET_ADDRESS test to the end of the sweep try / catch, the
\* retried save of the catch block excepted.
SettleSweep(i, outcome) ==
    /\ setts[i].pc = "sweep"
    /\ LET u == setts[i].user
           k == setts[i].idx
       IN IF ~adminWalletSet
          THEN /\ alerts' = alerts \cup {"Admin Wallet Not Configured"}
               /\ setts' = [setts EXCEPT ![i] = Returned([@ EXCEPT !.sweep = "skipped"])]
               /\ db' = db
          ELSE IF ~HasPrivateKey(u)
          THEN /\ alerts' = alerts \cup {"User Private Key Missing"}
               /\ setts' = [setts EXCEPT ![i] = Returned([@ EXCEPT !.sweep = "skipped"])]
               /\ db' = db
          ELSE IF outcome # "throws" /\ UpdatedUserDeclared
          THEN /\ db' = [db EXCEPT ![u].deposits[k] = SweepDetails(@, outcome)]
               /\ alerts' = IF outcome = "success" THEN alerts
                            ELSE alerts \cup {"Deposit Sweep Failed (Post-Credit)"}
               /\ setts' = [setts EXCEPT ![i] = Returned([@ EXCEPT !.sweep = outcome])]
          ELSE /\ alerts' = alerts \cup {"Critical Sweep Exception (Post-Credit)"}
               /\ setts' = [setts EXCEPT ![i] =
                                IF setts[i].modified
                                THEN [@ EXCEPT !.pc = "catchSave", !.sweep = outcome]
                                ELSE Returned([@ EXCEPT !.sweep = outcome])]
               /\ db' = db
    /\ UNCHANGED <<serviceVars, handlerVars, rewardVars, escaped, shutdownCalled, recs, mons, adminWalletSet,
                   websocketProviderConnected, listenerVars,
                   reqs, registryVars, skippedTicks>>

\* Variant: the save of the catch block also puts the record back to confirmed.
SaveAfterSweepExceptionResets(doc, t) ==
    [doc EXCEPT !.creditsHistory = t.trimmed, !.deposits[t.idx].status = "confirmed"]

\* What updateResult.save() writes in the catch block of the sweep: the one path
\* still modified, creditsHistory.
SaveAfterSweepException(doc, t) == [doc EXCEPT !.creditsHistory = t.trimmed]

\* if (updateResult && updateResult.isModified()) await updateResult.save()
SettleCatchSave(i, ok) ==
    /\ setts[i].pc = "catchSave"
    /\ IF ok
       THEN /\ db' = [db EXCEPT ![setts[i].user] = SaveAfterSweepException(@, setts[i])]
            /\ alerts' = alerts
            /\ setts' = [setts EXCEPT ![i] = Returned(@)]
       ELSE /\ db' = db
            /\ alerts' = alerts \cup {"Deposit Processing Save Error After Sweep Exception"}
            /\ setts' = [setts EXCEPT ![i] = Returned(@)]
    /\ UNCHANGED <<serviceVars, handlerVars, rewardVars, escaped, shutdownCalled, recs, mons, adminWalletSet,
                   websocketProviderConnected, listenerVars,
                   reqs, registryVars, skippedTicks>>

(***************************************************************************)
(* Store failures inside a batch                                           *)
(***************************************************************************)
\* Variant: an error of one check ends every check of the tick.
AbortChecks(ms, i) == [j \in DOMAIN ms |-> CheckReturned(ms[j])]
\* catch (txCheckErr) inside the callback of pendingDeposits.map: the error is
\* logged and the promise of this record alone resolves.
CatchCheckError(ms, i) == [ms EXCEPT ![i] = CheckReturned(@)]

\* A store call of a check rejects: User.findOne after the receipt arrived, or
\* user.save().
MonitorStoreFails(i) ==
    /\ mons[i].pc \in {"wait", "save"}
    /\ mons' = CatchCheckError(mons, i)
    /\ UNCHANGED <<serviceVars, handlerVars, rewardVars, escaped, shutdownCalled, db, recs, setts, alerts,
                   adminWalletSet, websocketProviderConnected, listenerVars,
                   reqs, registryVars, skippedTicks>>

\* User.aggregate of a tick rejects: the outer catch of monitorConfirmations
\* awaits the notification.  The promise of the tick has no handler of its own
\* (setInterval drops it).
MonitorAggregateFails ==
    /\ MonitorRuns(websocketProviderConnected)
    /\ alerts' = alerts \cup {"Deposit Confirmation Monitor Failed"}
    /\ escaped' = escaped \cup Rejection("monitorConfirmations", "Error")
    /\ UNCHANGED <<serviceVars, handlerVars, rewardVars, shutdownCalled, db, recs, mons, setts,
                   adminWalletSet, websocketProviderConnected, listenerVars,
                   reqs, registryVars, skippedTicks>>

\* Variant: an exception of one call of processConfirmedDeposit ends every call.
AbortSettles(ts, i) == [j \in DOMAIN ts |-> Returned(ts[j])]
\* catch (err) of processConfirmedDeposit: the call reports and returns; the
\* callers (.catch(console.error), Promise.allSettled) see it resolve.
CatchSettleError(ts, i) == [ts EXCEPT ![i] = Returned(@)]

\* User.findOne or User.findByIdAndUpdate of a call rejects.
SettleStoreFails(i) ==
    /\ setts[i].pc \in {"find", "credit"}
    /\ setts' = CatchSettleError(setts, i)
    /\ alerts' = alerts \cup {"Deposit Confirmation Processing Error"}
    /\ UNCHANGED <<serviceVars, handlerVars, rewardVars, escaped, shutdownCalled, db, recs, mons,
                   adminWalletSet, websocketProviderConnected, listenerVars,
                   reqs, registryVars, skippedTicks>>

\* User.aggregate of depositCatchUpJob rejects: its catch awaits the notification;
\* the cron callback has .catch on the promise of the job.
CatchUpAggregateFails ==
    /\ alerts' = alerts \cup {"Deposit Catch-Up Cron Job Failed"}
    /\ UNCHANGED <<serviceVars, handlerVars, rewardVars, escaped, shutdownCalled, db, recs, mons, setts,
                   adminWalletSet, websocketProviderConnected, listenerVars,
                   reqs, registryVars, skippedTicks>>

(***************************************************************************)
(* Specifications.  The listener variables rest while the pipeline runs.   *)
(***************************************************************************)
EmptyUser ==
    [credits |-> 0, deposits |-> <<>>, creditsHistory |-> <<>>, withdrawals |-> <<>>,
     stakes |-> <<>>]

\* No run of distributeDailyRewards is in progress.
NoRun == [pc |-> "idle", now |-> 0]

\* No call of the price fetcher, the sweeper or the notifier was made, nothing
\* was rejected unhandled, the listener was not shut down, the daily job is not
\* running.
ServicesIdle ==
    /\ priceCache = [k \in {} |-> 0]
    /\ clock = 0
    /\ priceCalls = <<>>
    /\ sweepCalls = <<>>
    /\ notifyCalls = <<>>
    /\ escaped = {}
    /\ shutdownCalled = FALSE
    /\ isDailyRewardsJobRunning = FALSE
    /\ today = 0
    /\ rewardRun = NoRun
    /\ rewardTasks = <<>>
    /\ skippedRuns = 0
    /\ listeners = {}
    /\ notifications = <<>>

ListenerIdle ==
    /\ registered = Users
    /\ userAddresses = {}
    /\ usdtFilter = {}
    /\ websocketUrlSet = TRUE
    /\ provider = 0
    /\ liveProviders = {}
    /\ liveTimers = {}
    /\ userAddressRefreshInterval = 0
    /\ confirmationMonitorInterval = 0
    /\ pendingRestarts = 0
    /\ starts = <<>>
    /\ nextId = 1

NoTasks ==
    /\ ServicesIdle
    /\ reqs = <<>>
    /\ loads = <<>>
    /\ skippedTicks = 0
    /\ recs = <<>>
    /\ mons = <<>>
    /\ setts = <<>>
    /\ alerts = {}

(***************************************************************************)
(* SpecRecord: the recorder alone, from an empty store.                    *)
(***************************************************************************)
InitRecord ==
    /\ db = [u \in Users |-> EmptyUser]
    /\ NoTasks
    /\ adminWalletSet = TRUE
    /\ websocketProviderConnected = TRUE
    /\ ListenerIdle

NextRecord ==
    \/ \E tx \in TxHashes, amt \in CryptoAmounts, to \in ChainAddresses :
           RecordCall(tx, amt, to)
    \/ \E i \in DOMAIN recs : RecordDedup(i)
    \/ \E i \in DOMAIN recs, price \in PriceOutcomes : RecordFindUser(i, price)
    \/ \E i \in DOMAIN recs : RecordSave(i)

SpecRecord == InitRecord /\ [][NextRecord]_vars

(***************************************************************************)
(* Spec: confirmation monitor, settlement and catch-up, from a store that  *)
(* holds deposits as the recorder leaves them (unconfirmed).               *)
(***************************************************************************)
\* The value the recorder computes for each transfer of the seeded store.
SeedValue(tx) == IF tx = "t1" THEN UsdValue(10, 3000) ELSE UsdValue(7, 3000)
SeedDeposits(txs) == [i \in DOMAIN txs |-> NewDeposit(txs[i], SeedValue(txs[i]))]
SeedUser(txs) == [EmptyUser EXCEPT !.deposits = SeedDeposits(txs)]

\* One transfer to u1; two transfers to u1; one transfer each to u1 and u2.
SeedStores ==
    { [u \in Users |-> IF u = "u1" THEN SeedUser(<<"t1">>) ELSE EmptyUser],
      [u \in Users |-> IF u = "u1" THEN SeedUser(<<"t1", "t2">>) ELSE EmptyUser],
      [u \in Users |-> IF u = "u1" THEN SeedUser(<<"t1">>)
                       ELSE IF u = "u2" THEN SeedUser(<<"t2">>) ELSE EmptyUser] }

Init ==
    /\ db \in SeedStores
    /\ NoTasks
    /\ adminWalletSet \in BOOLEAN
    /\ websocketProviderConnected = TRUE
    /\ ListenerIdle

Next ==
    \/ MonitorTick
    \/ \E i \in DOMAIN mons, receipt \in ReceiptOutcomes : MonitorLookup(i, receipt)
    \/ \E i \in DOMAIN mons : MonitorSave(i)
    \/ CatchUp
    \/ \E i \in DOMAIN setts : SettleFind(i)
    \/ \E i \in DOMAIN setts : SettleCredit(i)
    \/ \E i \in DOMAIN setts, ok \in BOOLEAN : SettleTrimSave(i, ok)
    \/ \E i \in DOMAIN setts, outcome \in SweepOutcomes : SettleSweep(i, outcome)
    \/ \E i \in DOMAIN setts, ok \in BOOLEAN : SettleCatchSave(i, ok)

Spec == Init /\ [][Next]_vars


(***************************************************************************)
(* SpecCatchUp: one run of depositCatchUpJob over a store that holds       *)
(* records left in status confirmed (the process stopped after the save of *)
(* the monitor and before processConfirmedDeposit ran), with no listener   *)
(* connected and no monitor tick.  The cron schedule starts the job; every *)
(* awaited store call, sweep and notification of a settle call returns.    *)
(***************************************************************************)
\* Deposits as recordDetectedDeposit pushed them, txs[i] marked confirmed by the
\* monitor when stuck[i] holds.
StuckDeposits(txs, stuck) ==
    [i \in DOMAIN txs |->
        IF stuck[i] THEN MarkConfirmed(NewDeposit(txs[i], SeedValue(txs[i])))
        ELSE NewDeposit(txs[i], SeedValue(txs[i]))]
StuckUser(txs, stuck) == [EmptyUser EXCEPT !.deposits = StuckDeposits(txs, stuck)]

StuckStores ==
    { [u \in Users |-> IF u = "u1" THEN StuckUser(<<"t1">>, <<TRUE>>) ELSE EmptyUser],
      [u \in Users |-> IF u = "u1" THEN StuckUser(<<"t1", "t2">>, <<TRUE, TRUE>>)
                       ELSE EmptyUser],
      [u \in Users |-> IF u = "u1" THEN StuckUser(<<"t1", "t2">>, <<TRUE, FALSE>>)
                       ELSE EmptyUser],
      [u \in Users |-> IF u = "u1" THEN StuckUser(<<"t1">>, <<TRUE>>)
                       ELSE IF u = "u2" THEN StuckUser(<<"t2">>, <<TRUE>>) ELSE EmptyUser] }

InitCatchUp ==
    /\ db \in StuckStores
    /\ NoTasks
    /\ adminWalletSet \in BOOLEAN
    /\ websocketProviderConnected = FALSE
    /\ ListenerIdle

\* The hourly schedule runs the job once while no call of processConfirmedDeposit
\* has been made.
CatchUpOnce == setts = <<>> /\ CatchUp

NextCatchUp ==
    \/ CatchUpOnce
    \/ \E i \in DOMAIN setts : SettleFind(i)
    \/ \E i \in DOMAIN setts : SettleCredit(i)
    \/ \E i \in DOMAIN setts, ok \in BOOLEAN : SettleTrimSave(i, ok)
    \/ \E i \in DOMAIN setts, outcome \in SweepOutcomes : SettleSweep(i, outcome)
    \/ \E i \in DOMAIN setts, ok \in BOOLEAN : SettleCatchSave(i, ok)

SpecCatchUp ==
    /\ InitCatchUp
    /\ [][NextCatchUp]_vars
    /\ WF_vars(CatchUpOnce)
    /\ WF_vars(\E i \in DOMAIN setts : SettleFind(i))
    /\ WF_vars(\E i \in DOMAIN setts : SettleCredit(i))
    /\ WF_vars(\E i \in DOMAIN setts, ok \in BOOLEAN : SettleTrimSave(i, ok))
    /\ WF_vars(\E i \in DOMAIN setts, outcome \in SweepOutcomes : SettleSweep(i, outcome))
    /\ WF_vars(\E i \in DOMAIN setts, ok \in BOOLEAN : SettleCatchSave(i, ok))


(***************************************************************************)
(* SpecLive: the monitor and settlement while the connection stays live    *)
(* and every recorded transaction reaches the required depth before the    *)
(* timeout of waitForTransaction.  The interval timer keeps ticking and    *)
(* every awaited call returns.                                             *)
(***************************************************************************)
\* waitForTransaction resolves with a receipt of CONFIRMATIONS_REQUIRED or more.
ReceiptsAtDepth == {"enough"}

NextLive ==
    \/ MonitorTick
    \/ \E i \in DOMAIN mons, receipt \in ReceiptsAtDepth : MonitorLookup(i, receipt)
    \/ \E i \in DOMAIN mons : MonitorSave(i)
    \/ \E i \in DOMAIN setts : SettleFind(i)
    \/ \E i \in DOMAIN setts : SettleCredit(i)
    \/ \E i \in DOMAIN setts, ok \in BOOLEAN : SettleTrimSave(i, ok)
    \/ \E i \in DOMAIN setts, outcome \in SweepOutcomes : SettleSweep(i, outcome)
    \/ \E i \in DOMAIN setts, ok \in BOOLEAN : SettleCatchSave(i, ok)

SpecLive ==
    /\ Init
    /\ [][NextLive]_vars
    /\ WF_vars(MonitorTick)
    /\ WF_vars(\E i \in DOMAIN mons, receipt \in ReceiptsAtDepth : MonitorLookup(i, receipt))
    /\ WF_vars(\E i \in DOMAIN mons : MonitorSave(i))
    /\ WF_vars(\E i \in DOMAIN setts : SettleFind(i))
    /\ WF_vars(\E i \in DOMAIN setts : SettleCredit(i))
    /\ WF_vars(\E i \in DOMAIN setts, ok \in BOOLEAN : SettleTrimSave(i, ok))
    /\ WF_vars(\E i \in DOMAIN setts, outcome \in SweepOutcomes : SettleSweep(i, outcome))
    /\ WF_vars(\E i \in DOMAIN setts, ok \in BOOLEAN : SettleCatchSave(i, ok))


(***************************************************************************)
(* The HTTP handlers that change a balance by reading the document,        *)
(* changing it in memory and saving it: POST /staking/plan and             *)
(* POST /admin/users/:userId/credits.                                      *)
(***************************************************************************)
\* minCredits of the plan 'quick', in cents; its duration in days; its rewardPercent.
QUICK_MIN_CREDITS == 5000
QUICK_DURATION == 7
QUICK_REWARD_PERCENT == 100

\* The element the staking handler pushes onto user.stakes.  dailyReward is
\* totalReward / duration, here in whole cents.
NewStake(amount, startDate) ==
    [amount |-> amount,
     dailyReward |-> ((amount * QUICK_REWARD_PERCENT) \div 100) \div QUICK_DURATION,
     duration |-> QUICK_DURATION, daysPaid |-> 0, lastRewardDate |-> startDate,
     status |-> "active"]

RequestKinds == {"stake", "admin_adjustment"}
\* The amount of the request body, in cents.
RequestAmounts == {5000}

NewRequest(kind, u, amount) ==
    [kind |-> kind, user |-> u, amount |-> amount, pc |-> "read",
     credits |-> 0, creditsHistory |-> <<>>, result |-> "running", withdrawalId |-> 0,
     withdrawalIndex |-> 0]

\* The router dispatches a request to its handler.
RequestCall(kind, u, amount) ==
    /\ Len(reqs) < MaxRequests
    /\ reqs' = Append(reqs, NewRequest(kind, u, amount))
    /\ UNCHANGED <<serviceVars, handlerVars, rewardVars, escaped, shutdownCalled, db, recs, mons, setts, alerts, adminWalletSet,
                   websocketProviderConnected, listenerVars, registryVars, skippedTicks>>

\* parsedAmount < plan.minCredits, parsedAmount > availableCredits
StakeRejected(amount, credits) == amount < QUICK_MIN_CREDITS \/ amount > credits

\* user = await User.findById(...), then the checks of the staking handler
RequestRead(i) ==
    /\ reqs[i].pc = "read"
    /\ reqs[i].kind \in RequestKinds
    /\ LET doc == db[reqs[i].user]
       IN reqs' = [reqs EXCEPT ![i] =
             IF reqs[i].kind = "stake" /\ StakeRejected(reqs[i].amount, doc.credits)
             THEN [@ EXCEPT !.pc = "done", !.result = "rejected"]
             ELSE [@ EXCEPT !.pc = "save", !.credits = doc.credits,
                            !.creditsHistory = doc.creditsHistory]]
    /\ UNCHANGED <<serviceVars, handlerVars, rewardVars, escaped, shutdownCalled, db, recs, mons, setts, alerts, adminWalletSet,
                   websocketProviderConnected, listenerVars, registryVars, skippedTicks>>

\* user.credits = availableCredits - parsedAmount;  user.credits = (user.credits || 0) + amount
NewCredits(r) ==
    IF r.kind = "stake" THEN r.credits - r.amount ELSE r.credits + r.amount

\* The entry the handler pushes onto user.creditsHistory.
RequestEntry(r) ==
    [type |-> r.kind, amount |-> IF r.kind = "stake" THEN 0 - r.amount ELSE r.amount,
     tx |-> "none"]

\* What user.save() writes: $set of credits to the value computed from the read;
\* for the history, $push of the entry, or, when the in-memory array was cut to the
\* limit, $set of the whole array.
SavedByRequest(doc, r) ==
    [doc EXCEPT !.credits = NewCredits(r),
                !.stakes = IF r.kind = "stake" THEN Append(@, NewStake(r.amount, today))
                           ELSE @,
                !.creditsHistory =
                    IF Len(r.creditsHistory) + 1 > CREDITS_HISTORY_LIMIT
                    THEN SliceLast(Append(r.creditsHistory, RequestEntry(r)),
                                   CREDITS_HISTORY_LIMIT)
                    ELSE Append(@, RequestEntry(r))]

\* await user.save()
RequestSave(i) ==
    /\ reqs[i].pc = "save"
    /\ reqs[i].kind \in RequestKinds
    /\ db' = [db EXCEPT ![reqs[i].user] = SavedByRequest(@, reqs[i])]
    /\ reqs' = [reqs EXCEPT ![i].pc = "done", ![i].result = "saved"]
    /\ UNCHANGED <<serviceVars, handlerVars, rewardVars, escaped, shutdownCalled, recs, mons, setts, alerts, adminWalletSet,
                   websocketProviderConnected, listenerVars, registryVars, skippedTicks>>

(***************************************************************************)
(* SpecLedger: the two handlers next to the settlement of deposits left in *)
(* confirmed, which one run of the catch-up job dispatches.                *)
(***************************************************************************)
NextLedger ==
    \/ \E kind \in RequestKinds, u \in Users, amount \in RequestAmounts :
           RequestCall(kind, u, amount)
    \/ \E i \in DOMAIN reqs : RequestRead(i)
    \/ \E i \in DOMAIN reqs : RequestSave(i)
    \/ CatchUpOnce
    \/ \E i \in DOMAIN setts : SettleFind(i)
    \/ \E i \in DOMAIN setts : SettleCredit(i)
    \/ \E i \in DOMAIN setts, ok \in BOOLEAN : SettleTrimSave(i, ok)
    \/ \E i \in DOMAIN setts, outcome \in SweepOutcomes : SettleSweep(i, outcome)
    \/ \E i \in DOMAIN setts, ok \in BOOLEAN : SettleCatchSave(i, ok)

SpecLedger == InitCatchUp /\ [][NextLedger]_vars

(***************************************************************************)
(* POST /withdrawal/request and the admin routes                           *)
(* POST /withdrawals/:userId/complete and POST /withdrawals/:userId/fail.  *)
(***************************************************************************)
\* MIN_WITHDRAWAL_AMOUNT, in cents.
MIN_WITHDRAWAL_AMOUNT == 1000

WithdrawalKinds == {"withdrawal"}
AdminWithdrawalKinds == {"complete", "fail"}

\* The element pushed onto user.withdrawals; the id stands for the 16 random bytes.
NewWithdrawal(id, amount) ==
    [id |-> id, amount |-> amount, status |-> "pending", processedDate |-> "unset",
     txHash |-> ""]

\* parsedAmount < MIN_WITHDRAWAL_AMOUNT, parsedAmount > availableForWithdrawal
WithdrawalRejected(amount, credits) == amount < MIN_WITHDRAWAL_AMOUNT \/ amount > credits

\* user = await User.findById(...), then the balance test on the copy read
WithdrawalRead(i) ==
    /\ reqs[i].pc = "read"
    /\ reqs[i].kind = "withdrawal"
    /\ reqs' = [reqs EXCEPT ![i] =
          IF WithdrawalRejected(reqs[i].amount, db[reqs[i].user].credits)
          THEN [@ EXCEPT !.pc = "done", !.result = "rejected"]
          ELSE [@ EXCEPT !.pc = "update", !.credits = db[reqs[i].user].credits,
                         !.withdrawalId = i]]
    /\ UNCHANGED <<serviceVars, handlerVars, rewardVars, escaped, shutdownCalled, db, recs, mons, setts, alerts,
                   adminWalletSet, websocketProviderConnected, listenerVars, registryVars,
                   skippedTicks>>

\* User.findByIdAndUpdate(req.userId, { $inc: { credits: -parsedAmount },
\*     $push: { withdrawals: {...}, creditsHistory: newHistoryEntry } })
WithdrawalUpdate(i) ==
    /\ reqs[i].pc = "update"
    /\ reqs[i].kind = "withdrawal"
    /\ db' = [db EXCEPT ![reqs[i].user] =
                 [@ EXCEPT !.credits = @ - reqs[i].amount,
                           !.withdrawals = Append(@, NewWithdrawal(reqs[i].withdrawalId,
                                                                   reqs[i].amount)),
                           !.creditsHistory =
                               Append(@, [type |-> "withdrawal", amount |-> 0 - reqs[i].amount,
                                          tx |-> "none"])]]
    /\ reqs' = [reqs EXCEPT ![i].pc = "trimRead"]
    /\ UNCHANGED <<serviceVars, handlerVars, rewardVars, escaped, shutdownCalled, recs, mons, setts, alerts,
                   adminWalletSet, websocketProviderConnected, listenerVars, registryVars,
                   skippedTicks>>

\* userWithHistory = await User.findById(req.userId).select('creditsHistory'); without
\* a history over the limit the handler goes on to the notification and the response.
WithdrawalTrimRead(i) ==
    /\ reqs[i].pc = "trimRead"
    /\ LET h == db[reqs[i].user].creditsHistory
       IN IF Len(h) > CREDITS_HISTORY_LIMIT
          THEN /\ reqs' = [reqs EXCEPT ![i].pc = "trimSave",
                                       ![i].creditsHistory = SliceLast(h, CREDITS_HISTORY_LIMIT)]
               /\ alerts' = alerts
          ELSE /\ reqs' = [reqs EXCEPT ![i].pc = "done", ![i].result = "saved"]
               /\ alerts' = alerts \cup {"New Withdrawal Request"}
    /\ UNCHANGED <<serviceVars, handlerVars, rewardVars, escaped, shutdownCalled, db, recs, mons, setts,
                   adminWalletSet, websocketProviderConnected, listenerVars, registryVars,
                   skippedTicks>>

\* await userWithHistory.save() / await updatedUser.save(): $set of the whole history
\* to the slice of the copy read; then the rest of the handler.
HistoryTrimSave(i) ==
    /\ reqs[i].pc = "trimSave"
    /\ db' = [db EXCEPT ![reqs[i].user].creditsHistory = reqs[i].creditsHistory]
    /\ reqs' = [reqs EXCEPT ![i].pc = "done", ![i].result = "saved"]
    /\ alerts' = IF reqs[i].kind = "withdrawal"
                 THEN alerts \cup {"New Withdrawal Request"} ELSE alerts
    /\ UNCHANGED <<serviceVars, handlerVars, rewardVars, escaped, shutdownCalled, recs, mons, setts,
                   adminWalletSet, websocketProviderConnected, listenerVars, registryVars,
                   skippedTicks>>

\* The admin router dispatches a request for one withdrawal id to its handler.
AdminWithdrawalCall(kind, u, withdrawalId) ==
    /\ Len(reqs) < MaxRequests
    /\ reqs' = Append(reqs, [NewRequest(kind, u, 0) EXCEPT !.withdrawalId = withdrawalId])
    /\ UNCHANGED <<serviceVars, handlerVars, rewardVars, escaped, shutdownCalled, db, recs, mons, setts, alerts,
                   adminWalletSet, websocketProviderConnected, listenerVars, registryVars,
                   skippedTicks>>

\* findIndex(w => w.id === withdrawalId): the first position holding the id, 0 for -1.
WithdrawalIndexOf(withdrawals, withdrawalId) ==
    IF \E k \in DOMAIN withdrawals : withdrawals[k].id = withdrawalId
    THEN CHOOSE k \in DOMAIN withdrawals :
             /\ withdrawals[k].id = withdrawalId
             /\ \A j \in 1..(k - 1) : withdrawals[j].id # withdrawalId
    ELSE 0

\* The first position in status pending, 0 if none.
FirstPending(withdrawals) ==
    IF \E k \in DOMAIN withdrawals : withdrawals[k].status = "pending"
    THEN CHOOSE k \in DOMAIN withdrawals :
             /\ withdrawals[k].status = "pending"
             /\ \A j \in 1..(k - 1) : withdrawals[j].status # "pending"
    ELSE 0

\* The filter { 'withdrawals.id': withdrawalId, 'withdrawals.status': 'pending' }:
\* two conditions on the array, each met by some element, not one element meeting both.
CompleteFilterMatches(withdrawals, withdrawalId) ==
    WithdrawalIndexOf(withdrawals, withdrawalId) # 0 /\ FirstPending(withdrawals) # 0

\* 'withdrawals.$': the position the matcher recorded.  With two conditions on one
\* array the store records the position found for one of them; which one is not
\* defined.
PositionalIndexes(withdrawals, withdrawalId) ==
    {WithdrawalIndexOf(withdrawals, withdrawalId), FirstPending(withdrawals)}

\* POST /withdrawals/:userId/complete: one User.findOneAndUpdate, then the response.
CompleteUpdate(i, k) ==
    /\ reqs[i].pc = "read"
    /\ reqs[i].kind = "complete"
    /\ LET ws == db[reqs[i].user].withdrawals
       IN IF CompleteFilterMatches(ws, reqs[i].withdrawalId)
             /\ PositionalIndexes(ws, reqs[i].withdrawalId) # {}
          THEN /\ k \in PositionalIndexes(ws, reqs[i].withdrawalId)
               /\ db' = [db EXCEPT ![reqs[i].user].withdrawals[k] =
                            [@ EXCEPT !.status = "completed", !.processedDate = "set",
                                      !.txHash = "0xhash"]]
               /\ reqs' = [reqs EXCEPT ![i].pc = "done", ![i].result = "saved",
                                       ![i].withdrawalIndex = k]
          ELSE /\ k = 0
               /\ db' = db
               /\ reqs' = [reqs EXCEPT ![i].pc = "done", ![i].result = "rejected"]
    /\ UNCHANGED <<serviceVars, handlerVars, rewardVars, escaped, shutdownCalled, recs, mons, setts, alerts,
                   adminWalletSet, websocketProviderConnected, listenerVars, registryVars,
                   skippedTicks>>

\* POST /withdrawals/:userId/fail: user = await User.findById(...), findIndex, the
\* status test on the copy read.
FailRead(i) ==
    /\ reqs[i].pc = "read"
    /\ reqs[i].kind = "fail"
    /\ LET ws == db[reqs[i].user].withdrawals
           k == WithdrawalIndexOf(ws, reqs[i].withdrawalId)
       IN reqs' = [reqs EXCEPT ![i] =
             IF k = 0 \/ ws[k].status # "pending"
             THEN [@ EXCEPT !.pc = "done", !.result = "rejected"]
             ELSE [@ EXCEPT !.pc = "update", !.withdrawalIndex = k,
                            !.amount = ws[k].amount]]
    /\ UNCHANGED <<serviceVars, handlerVars, rewardVars, escaped, shutdownCalled, db, recs, mons, setts, alerts,
                   adminWalletSet, websocketProviderConnected, listenerVars, registryVars,
                   skippedTicks>>

\* User.findByIdAndUpdate(userId, { $set: withdrawals.<index>.status: 'failed', ...,
\* $inc: { credits: amountToRefund }, $push: { creditsHistory: ... } }), then the trim
\* of the returned document when its history is over the limit.
FailUpdate(i) ==
    /\ reqs[i].pc = "update"
    /\ reqs[i].kind = "fail"
    /\ LET u == reqs[i].user
           h == Append(db[u].creditsHistory,
                       [type |-> "withdrawal_refund", amount |-> reqs[i].amount, tx |-> "none"])
       IN /\ db' = [db EXCEPT ![u] =
                       [@ EXCEPT !.credits = @ + reqs[i].amount,
                                 !.withdrawals[reqs[i].withdrawalIndex] =
                                     [@ EXCEPT !.status = "failed", !.processedDate = "set"],
                                 !.creditsHistory = h]]
          /\ reqs' = [reqs EXCEPT ![i] =
                IF Len(h) > CREDITS_HISTORY_LIMIT
                THEN [@ EXCEPT !.pc = "trimSave",
                               !.creditsHistory = SliceLast(h, CREDITS_HISTORY_LIMIT)]
                ELSE [@ EXCEPT !.pc = "done", !.result = "saved"]]
    /\ UNCHANGED <<serviceVars, handlerVars, rewardVars, escaped, shutdownCalled, recs, mons, setts, alerts,
                   adminWalletSet, websocketProviderConnected, listenerVars, registryVars,
                   skippedTicks>>

(***************************************************************************)
(* SpecAccount: stake creations and withdrawal requests on one account     *)
(* that holds the minimum of the plan 'quick'.                             *)
(***************************************************************************)
AccountHolders == {"u1", "u2"}
FundedUser == [EmptyUser EXCEPT !.credits = QUICK_MIN_CREDITS]

InitAccount ==
    /\ db = [u \in Users |-> IF u \in AccountHolders THEN FundedUser ELSE EmptyUser]
    /\ NoTasks
    /\ adminWalletSet = TRUE
    /\ websocketProviderConnected = FALSE
    /\ ListenerIdle

NextAccount ==
    \/ \E kind \in {"stake"} \cup WithdrawalKinds, u \in AccountHolders,
          amount \in RequestAmounts : RequestCall(kind, u, amount)
    \/ \E i \in DOMAIN reqs : RequestRead(i)
    \/ \E i \in DOMAIN reqs : RequestSave(i)
    \/ \E i \in DOMAIN reqs : WithdrawalRead(i)
    \/ \E i \in DOMAIN reqs : WithdrawalUpdate(i)
    \/ \E i \in DOMAIN reqs : WithdrawalTrimRead(i)
    \/ \E i \in DOMAIN reqs : HistoryTrimSave(i)

SpecAccount == InitAccount /\ [][NextAccount]_vars

(***************************************************************************)
(* SpecWithdrawals: the two admin routes on an account that holds one or   *)
(* two withdrawals, at least one of them pending.                          *)
(***************************************************************************)
WithdrawalIds == {101, 102}

\* A withdrawal as the request handler and the admin routes leave it.
StoredWithdrawal(id, status) ==
    [NewWithdrawal(id, QUICK_MIN_CREDITS) EXCEPT
         !.status = status,
         !.processedDate = IF status = "pending" THEN "unset" ELSE "set",
         !.txHash = IF status = "completed" THEN "0xhash" ELSE ""]

\* The account after its requests and after the admin decision on the first one.
WithdrawnUser(statuses) ==
    [EmptyUser EXCEPT
         !.credits = IF statuses[1] = "failed" THEN QUICK_MIN_CREDITS ELSE 0,
         !.withdrawals = [k \in DOMAIN statuses |-> StoredWithdrawal(100 + k, statuses[k])],
         !.creditsHistory =
             IF statuses[1] = "failed"
             THEN <<[type |-> "withdrawal_refund", amount |-> QUICK_MIN_CREDITS,
                     tx |-> "none"]>>
             ELSE <<[type |-> "withdrawal", amount |-> 0 - QUICK_MIN_CREDITS,
                     tx |-> "none"]>>]

WithdrawalStatuses ==
    { <<"pending">>, <<"pending", "pending">>, <<"completed", "pending">>,
      <<"failed", "pending">> }

InitWithdrawals ==
    /\ \E statuses \in WithdrawalStatuses :
           db = [u \in Users |-> IF u = "u1" THEN WithdrawnUser(statuses) ELSE EmptyUser]
    /\ NoTasks
    /\ adminWalletSet = TRUE
    /\ websocketProviderConnected = FALSE
    /\ ListenerIdle

NextWithdrawals ==
    \/ \E kind \in AdminWithdrawalKinds, withdrawalId \in WithdrawalIds :
           AdminWithdrawalCall(kind, "u1", withdrawalId)
    \/ \E i \in DOMAIN reqs, k \in 0..2 : CompleteUpdate(i, k)
    \/ \E i \in DOMAIN reqs : FailRead(i)
    \/ \E i \in DOMAIN reqs : FailUpdate(i)
    \/ \E i \in DOMAIN reqs : HistoryTrimSave(i)

SpecWithdrawals == InitWithdrawals /\ [][NextWithdrawals]_vars

(***************************************************************************)
(* distributeDailyRewards.  Dates are UTC day numbers.  The accounts of    *)
(* the model have no referrer, so the processReferralReward dispatched at  *)
(* a completion returns after its first read.                              *)
(***************************************************************************)
\* Variant: every day since the last reward is paid.
DaysToPayUncapped(daysSinceLastReward, daysRemaining) == daysSinceLastReward
\* Math.min(daysSinceLastReward, daysRemaining)
DaysToPay(daysSinceLastReward, daysRemaining) ==
    IF daysSinceLastReward < daysRemaining THEN daysSinceLastReward ELSE daysRemaining

\* The body of the loop for one active stake: the stake as the callback leaves it
\* in memory, the reward and the principal it adds to user.credits.
PayStake(stake, now) ==
    LET daysSinceLastReward == now - stake.lastRewardDate
        daysToPay == DaysToPay(daysSinceLastReward, stake.duration - stake.daysPaid)
        pays == daysSinceLastReward >= 1 /\ daysToPay > 0
        paid == IF pays
                THEN [stake EXCEPT !.daysPaid = @ + daysToPay,
                                   !.lastRewardDate = @ + daysToPay]
                ELSE stake
        completes == daysSinceLastReward >= 1 /\ paid.daysPaid >= paid.duration
    IN [stake |-> IF completes THEN [paid EXCEPT !.status = "completed"] ELSE paid,
        reward |-> IF pays THEN stake.dailyReward * daysToPay ELSE 0,
        principal |-> IF completes THEN stake.amount ELSE 0]

\* The entries the loop pushes onto user.creditsHistory for one stake.
RewardEntries(p) ==
    (IF p.reward > 0 THEN <<[type |-> "reward", amount |-> p.reward, tx |-> "none"]>>
     ELSE <<>>)
    \o (IF p.principal > 0 THEN <<[type |-> "stake", amount |-> p.principal, tx |-> "none"]>>
        ELSE <<>>)

\* for (const stake of activeStakes) { ... }, from stake k on
RECURSIVE PayStakes(_, _, _)
PayStakes(doc, k, now) ==
    IF k > Len(doc.stakes) THEN doc
    ELSE IF doc.stakes[k].status # "active" THEN PayStakes(doc, k + 1, now)
    ELSE LET p == PayStake(doc.stakes[k], now)
         IN PayStakes([doc EXCEPT !.credits = @ + p.reward + p.principal,
                                  !.stakes[k] = p.stake,
                                  !.creditsHistory = @ \o RewardEntries(p)],
                      k + 1, now)

\* { 'stakes.status': 'active', isActive: true }
HasActiveStake(doc) == \E k \in DOMAIN doc.stakes : doc.stakes[k].status = "active"

\* The users the cursor of the run has delivered.
Delivered == {rewardTasks[t].user : t \in DOMAIN rewardTasks}
\* eachAsync is given { concurrency: ... }, an option it does not have: it runs one
\* callback at a time, and asks the cursor for the next document when the callback
\* has returned.
CallbackInFlight == \E t \in DOMAIN rewardTasks : rewardTasks[t].pc = "save"

\* Variant: the flag is not tested.
AlreadyRunningNever(running) == FALSE
\* if (isDailyRewardsJobRunning) return
AlreadyRunning(running) == running

\* cron calls distributeDailyRewards(): the flag test, the flag, now = new Date(),
\* User.find(...).cursor()
DailyRewardsTrigger ==
    /\ IF AlreadyRunning(isDailyRewardsJobRunning)
       THEN /\ skippedRuns < MaxSkippedRuns
            /\ skippedRuns' = skippedRuns + 1
            /\ UNCHANGED <<isDailyRewardsJobRunning, rewardRun, rewardTasks>>
       ELSE /\ isDailyRewardsJobRunning' = TRUE
            /\ rewardRun' = [pc |-> "cursor", now |-> today]
            /\ rewardTasks' = <<>>
            /\ skippedRuns' = skippedRuns
    /\ UNCHANGED <<serviceVars, handlerVars, today, escaped, shutdownCalled, db, recs, mons, setts, alerts,
                   adminWalletSet, websocketProviderConnected, listenerVars, reqs,
                   registryVars, skippedTicks>>

\* The cursor delivers the next user and the callback runs up to await user.save(),
\* or to its end when no stake of the user was due.
RewardCursorNext(u) ==
    /\ rewardRun.pc = "cursor"
    /\ ~CallbackInFlight
    /\ u \notin Delivered
    /\ HasActiveStake(db[u])
    /\ LET paid == PayStakes(db[u], 1, rewardRun.now)
           userUpdated == paid.stakes # db[u].stakes
       IN rewardTasks' = Append(rewardTasks,
              [user |-> u, read |-> db[u], paid |-> paid,
               pc |-> IF userUpdated THEN "save" ELSE "done",
               result |-> IF userUpdated THEN "running" ELSE "nothing_due"])
    /\ UNCHANGED <<serviceVars, handlerVars, isDailyRewardsJobRunning, today, rewardRun, skippedRuns,
                   escaped, shutdownCalled, db, recs, mons, setts, alerts,
                   adminWalletSet, websocketProviderConnected, listenerVars, reqs,
                   registryVars, skippedTicks>>

\* What user.save() writes: $set of credits and of the fields of the stakes the
\* callback changed; for the history $push of the new entries, or $set of the whole
\* array when the callback cut it to the limit.
SavedByRewards(doc, task) ==
    [doc EXCEPT
        !.credits = task.paid.credits,
        !.stakes = [k \in DOMAIN doc.stakes |->
                       IF k \in DOMAIN task.read.stakes
                          /\ task.paid.stakes[k] # task.read.stakes[k]
                       THEN task.paid.stakes[k] ELSE doc.stakes[k]],
        !.creditsHistory =
            IF Len(task.paid.creditsHistory) > CREDITS_HISTORY_LIMIT
            THEN SliceLast(task.paid.creditsHistory, CREDITS_HISTORY_LIMIT)
            ELSE @ \o SubSeq(task.paid.creditsHistory, Len(task.read.creditsHistory) + 1,
                             Len(task.paid.creditsHistory))]

\* await user.save(), or its catch block
RewardSave(t, ok) ==
    /\ rewardTasks[t].pc = "save"
    /\ IF ok
       THEN /\ db' = [db EXCEPT ![rewardTasks[t].user] = SavedByRewards(@, rewardTasks[t])]
            /\ rewardTasks' = [rewardTasks EXCEPT ![t].pc = "done", ![t].result = "saved"]
            /\ alerts' = alerts
       ELSE /\ db' = db
            /\ rewardTasks' = [rewardTasks EXCEPT ![t].pc = "done", ![t].result = "error"]
            /\ alerts' = alerts \cup {"Daily Rewards Save Error"}
    /\ UNCHANGED <<serviceVars, handlerVars, isDailyRewardsJobRunning, today, rewardRun, skippedRuns,
                   escaped, shutdownCalled, recs, mons, setts,
                   adminWalletSet, websocketProviderConnected, listenerVars, reqs,
                   registryVars, skippedTicks>>

\* The cursor is exhausted: eachAsync resolves, the finally block clears the flag.
RewardCompletes ==
    /\ rewardRun.pc = "cursor"
    /\ ~CallbackInFlight
    /\ \A u \in Users \ Delivered : ~HasActiveStake(db[u])
    /\ isDailyRewardsJobRunning' = FALSE
    /\ rewardRun' = NoRun
    /\ rewardTasks' = <<>>
    /\ UNCHANGED <<serviceVars, handlerVars, today, skippedRuns,
                   escaped, shutdownCalled, db, recs, mons, setts, alerts,
                   adminWalletSet, websocketProviderConnected, listenerVars, reqs,
                   registryVars, skippedTicks>>

\* The cursor fails: the catch block, suspended at the awaited notification.
RewardCursorFails ==
    /\ rewardRun.pc = "cursor"
    /\ ~CallbackInFlight
    /\ rewardRun' = [rewardRun EXCEPT !.pc = "failed"]
    /\ alerts' = alerts \cup {"Daily Rewards Cron Job Failed"}
    /\ UNCHANGED <<serviceVars, handlerVars, isDailyRewardsJobRunning, today, rewardTasks, skippedRuns,
                   escaped, shutdownCalled, db, recs, mons, setts,
                   adminWalletSet, websocketProviderConnected, listenerVars, reqs,
                   registryVars, skippedTicks>>

\* The finally block after the catch block.
RewardFailedFinish ==
    /\ rewardRun.pc = "failed"
    /\ isDailyRewardsJobRunning' = FALSE
    /\ rewardRun' = NoRun
    /\ rewardTasks' = <<>>
    /\ UNCHANGED <<serviceVars, handlerVars, today, skippedRuns,
                   escaped, shutdownCalled, db, recs, mons, setts, alerts,
                   adminWalletSet, websocketProviderConnected, listenerVars, reqs,
                   registryVars, skippedTicks>>

\* Midnight UTC passes.
DayTick ==
    /\ today < MaxDay
    /\ today' = today + 1
    /\ UNCHANGED <<serviceVars, handlerVars, isDailyRewardsJobRunning, rewardRun, rewardTasks, skippedRuns,
                   escaped, shutdownCalled, db, recs, mons, setts, alerts,
                   adminWalletSet, websocketProviderConnected, listenerVars, reqs,
                   registryVars, skippedTicks>>

(***************************************************************************)
(* SpecRewards: the daily job on accounts that staked on day 0, triggered  *)
(* at any time, also while a run is in progress and after days without a   *)
(* run.                                                                    *)
(***************************************************************************)
StakedUser(amounts) ==
    [EmptyUser EXCEPT !.stakes = [k \in DOMAIN amounts |-> NewStake(amounts[k], 0)]]

StakedStores ==
    { [u \in Users |-> IF u = "u1" THEN StakedUser(<<7000>>) ELSE EmptyUser],
      [u \in Users |-> IF u = "u1" THEN StakedUser(<<7000, 14000>>) ELSE EmptyUser],
      [u \in Users |-> IF u \in {"u1", "u2"} THEN StakedUser(<<7000>>) ELSE EmptyUser] }

InitRewards ==
    /\ db \in StakedStores
    /\ NoTasks
    /\ adminWalletSet = TRUE
    /\ websocketProviderConnected = FALSE
    /\ ListenerIdle

NextRewards ==
    \/ DailyRewardsTrigger
    \/ \E u \in Users : RewardCursorNext(u)
    \/ \E t \in DOMAIN rewardTasks, ok \in BOOLEAN : RewardSave(t, ok)
    \/ RewardCompletes
    \/ RewardCursorFails
    \/ RewardFailedFinish
    \/ DayTick

SpecRewards == InitRewards /\ [][NextRewards]_vars

(***************************************************************************)
(* SpecRun: the runs of one day on accounts that staked the day before.    *)
(* Every awaited call of a run returns: the cursor delivers or fails, the  *)
(* save and the notification end.                                          *)
(***************************************************************************)
StakedYesterday ==
    [EmptyUser EXCEPT !.stakes = <<NewStake(QUICK_DURATION * 1000, 0 - 1)>>]

InitRun ==
    /\ db = [u \in Users |-> StakedYesterday]
    /\ NoTasks
    /\ adminWalletSet = TRUE
    /\ websocketProviderConnected = FALSE
    /\ ListenerIdle

RunSteps ==
    \/ \E u \in Users : RewardCursorNext(u)
    \/ \E t \in DOMAIN rewardTasks, ok \in BOOLEAN : RewardSave(t, ok)
    \/ RewardCompletes
    \/ RewardCursorFails
    \/ RewardFailedFinish

NextRun ==
    \/ DailyRewardsTrigger
    \/ RunSteps

SpecRun == InitRun /\ [][NextRun]_vars /\ WF_vars(RunSteps)


(***************************************************************************)
(* loadUserAddresses and the readers of userAddresses                      *)
(***************************************************************************)
\* The accounts of the store: the three of the pipeline and u4, whose stored
\* walletAddress is not an address.
Accounts == Users \cup {"u4"}

\* What ethers.getAddress accepts: the checksummed and the all-lower-case form.
ValidAddresses == ChainAddresses \cup {toLowerCase(a) : a \in ChainAddresses}

\* Variant: every stored string passes.
isValidEthereumAddressAny(address) == TRUE
isValidEthereumAddress(address) == address \in ValidAddresses

\* newAddresses as the forEach builds it from the users the query returned.
NewAddresses(found) ==
    {toLowerCase(walletAddress(u)) :
        u \in {v \in found : isValidEthereumAddress(walletAddress(v))}}

\* A call of loadUserAddresses; owner is the call of startDepositListener that
\* awaits it, 0 for a call by the refresh interval.
NewLoad(owner) == [pc |-> "find", owner |-> owner, found |-> {}]

\* Variant: the catch block leaves an empty Set.
EmptiedAfterFailedLoad(addresses) == {}
\* The catch block does not assign userAddresses.
AfterFailedLoad(addresses) == addresses

\* users = await User.find({ isActive: true }): the store answers the query, or the
\* query fails and the catch block reports it.
LoadFind(j, ok) ==
    /\ loads[j].pc = "find"
    /\ IF ok
       THEN /\ loads' = [loads EXCEPT ![j].pc = "assign", ![j].found = registered]
            /\ alerts' = alerts
            /\ userAddresses' = userAddresses
       ELSE /\ loads' = [loads EXCEPT ![j].pc = "done"]
            /\ alerts' = alerts \cup {"Deposit Listener Error"}
            /\ userAddresses' = AfterFailedLoad(userAddresses)
    /\ UNCHANGED <<serviceVars, handlerVars, rewardVars, escaped, shutdownCalled, db, recs, mons, setts, adminWalletSet, websocketProviderConnected,
                   listenerVars, reqs, skippedTicks, registered, usdtFilter>>

\* The continuation after the await: the forEach that fills the local Set and
\* userAddresses = newAddresses, with no await in between.
LoadAssign(j) ==
    /\ loads[j].pc = "assign"
    /\ userAddresses' = NewAddresses(loads[j].found)
    /\ loads' = [loads EXCEPT ![j].pc = "done", ![j].found = {}]
    /\ UNCHANGED <<serviceVars, handlerVars, rewardVars, escaped, shutdownCalled, db, recs, mons, setts, alerts, adminWalletSet,
                   websocketProviderConnected, listenerVars, reqs, skippedTicks,
                   registered, usdtFilter>>

\* The interval armed with setInterval(loadUserAddresses, ...) fires.
RefreshTick ==
    /\ \E t \in liveTimers : t.kind = "refresh"
    /\ Cardinality({j \in DOMAIN loads : loads[j].owner = 0}) < MaxLoads
    /\ loads' = Append(loads, NewLoad(0))
    /\ UNCHANGED <<serviceVars, handlerVars, rewardVars, escaped, shutdownCalled, db, recs, mons, setts, alerts, adminWalletSet,
                   websocketProviderConnected, listenerVars, reqs, skippedTicks,
                   registered, userAddresses, usdtFilter>>

\* POST /register saves a new active account.
Register(u) ==
    /\ u \in Accounts \ registered
    /\ registered' = registered \cup {u}
    /\ UNCHANGED <<serviceVars, handlerVars, rewardVars, escaped, shutdownCalled, db, recs, mons, setts, alerts, adminWalletSet,
                   websocketProviderConnected, listenerVars, reqs, skippedTicks,
                   userAddresses, usdtFilter, loads>>

\* The block handler: userAddresses.has(tx.to.toLowerCase()), read when the block arrives.
EthMatches(to) == toLowerCase(to) \in userAddresses
\* The Transfer filter: the to-addresses it was created with.
UsdtMatches(to) == toLowerCase(to) \in usdtFilter


(***************************************************************************)
(* startDepositListener and the error handler of the provider              *)
(***************************************************************************)
NewStart == [pc |-> "begin"]

\* setTimeout(startDepositListener, 5000) in the error handler and in the catch
\* block of startDepositListener: one more restart is pending.
RestartAfterError(n) == n + 1
\* Variant: the catch block arms no retry.
NoRestartAfterFailure(n) == n
RestartAfterFailure(n) == n + 1
\* The return after the missing-URL report arms no timer.
RestartAfterMissingUrl(n) == n

\* Room for one more call of startDepositListener within the bound.
CanSchedule == Len(starts) + pendingRestarts < MaxStarts

Timer(id, kind) == [id |-> id, kind |-> kind]
\* clearInterval(handle)
ClearInterval(timers, handle) == {t \in timers : t.id # handle}

\* The catch block of startDepositListener.
StartCatch(i) ==
    /\ CanSchedule
    /\ websocketProviderConnected' = FALSE
    /\ pendingRestarts' = RestartAfterFailure(pendingRestarts)
    /\ alerts' = alerts \cup {"Failed to Start Deposit Listener"}
    /\ starts' = [starts EXCEPT ![i].pc = "failed"]

\* From the entry to the suspension at await loadUserAddresses().
StartBegin(i, constructorThrows) ==
    /\ starts[i].pc = "begin"
    /\ IF ~websocketUrlSet
       THEN /\ alerts' = alerts \cup {"Deposit Listener Fatal Error"}
            /\ pendingRestarts' = RestartAfterMissingUrl(pendingRestarts)
            /\ starts' = [starts EXCEPT ![i].pc = "no_config"]
            /\ UNCHANGED <<provider, liveProviders, nextId, websocketProviderConnected,
                           loads>>
       ELSE IF constructorThrows
       THEN /\ StartCatch(i)
            /\ UNCHANGED <<provider, liveProviders, nextId, loads>>
       ELSE /\ provider' = nextId
            /\ liveProviders' = liveProviders \cup {nextId}
            /\ nextId' = nextId + 1
            /\ starts' = [starts EXCEPT ![i].pc = "awaitLoad"]
            /\ loads' = Append(loads, NewLoad(i))
            /\ UNCHANGED <<alerts, pendingRestarts, websocketProviderConnected>>
    /\ UNCHANGED <<serviceVars, handlerVars, rewardVars, escaped, shutdownCalled, reqs, registered, userAddresses, usdtFilter, skippedTicks,
                   db, recs, mons, setts, adminWalletSet, websocketUrlSet, liveTimers,
                   userAddressRefreshInterval, confirmationMonitorInterval>>

\* Outcomes of the USDT listener setup: no contract configured, listener attached,
\* an exception caught by the inner try (reported with an awaited notification).
UsdtOutcomes == {"none", "attached", "setupError"}

\* usdtContract.filters.Transfer(null, Array.from(userAddresses)): the addresses of
\* the Set at the moment the listener is attached.
TransferFilter(addresses) == addresses

\* provider.on("block", ...) and, when the USDT listener is attached over a
\* non-empty address list, usdtContract.on(filter, ...), both on the given provider.
Listener(p, kind, filter) == [provider |-> p, kind |-> kind, filter |-> filter]
AttachedBy(p, usdt, addresses) ==
    {Listener(p, "block", {})}
        \cup (IF usdt = "attached" /\ addresses # {}
              THEN {Listener(p, "Transfer", TransferFilter(addresses))}
              ELSE {})
\* provider.removeAllListeners() on the module's provider (nothing when it is null)
RemoveAllListeners(attached, p) == {l \in attached : l.provider # p}

\* From the resumption after loadUserAddresses() to the end of the function or to
\* the suspension at the awaited notification of the USDT setup error.
StartArm(i, usdt) ==
    /\ starts[i].pc = "awaitLoad"
    /\ \E j \in DOMAIN loads : loads[j].owner = i /\ loads[j].pc = "done"
    /\ userAddressRefreshInterval' = nextId
    /\ confirmationMonitorInterval' = nextId + 1
    /\ liveTimers' = liveTimers \cup {Timer(nextId, "refresh"), Timer(nextId + 1, "monitor")}
    /\ nextId' = nextId + 2
    /\ IF provider = 0
       THEN /\ StartCatch(i)
            /\ usdtFilter' = usdtFilter
       ELSE IF usdt = "setupError"
       THEN /\ alerts' = alerts \cup {"USDT Listener Setup Error"}
            /\ starts' = [starts EXCEPT ![i].pc = "awaitNotify"]
            /\ usdtFilter' = usdtFilter
            /\ UNCHANGED <<pendingRestarts, websocketProviderConnected>>
       ELSE /\ websocketProviderConnected' = TRUE
            /\ starts' = [starts EXCEPT ![i].pc = "running"]
            /\ usdtFilter' = IF usdt = "attached" THEN TransferFilter(userAddresses)
                             ELSE usdtFilter
            /\ UNCHANGED <<alerts, pendingRestarts>>
    /\ listeners' = IF provider = 0 THEN listeners
                    ELSE listeners \cup AttachedBy(provider, usdt, userAddresses)
    /\ UNCHANGED <<serviceVars, notifications, rewardVars, escaped, shutdownCalled, reqs, registered, userAddresses, loads, skippedTicks,
                   db, recs, mons, setts, adminWalletSet, websocketUrlSet, provider,
                   liveProviders>>

\* The resumption after the awaited notification: websocketProviderConnected = true.
StartFinish(i) ==
    /\ starts[i].pc = "awaitNotify"
    /\ websocketProviderConnected' = TRUE
    /\ starts' = [starts EXCEPT ![i].pc = "running"]
    /\ UNCHANGED <<serviceVars, handlerVars, rewardVars, escaped, shutdownCalled, reqs, registryVars, skippedTicks, db, recs, mons, setts, alerts, adminWalletSet, websocketUrlSet,
                   provider, liveProviders, liveTimers, userAddressRefreshInterval,
                   confirmationMonitorInterval, pendingRestarts, nextId>>

\* provider.on("error", ...) fires on a provider that still has its listeners.
\* The handler works on the module variables, whichever provider raised the event.
ProviderError(p) ==
    /\ p \in liveProviders
    /\ CanSchedule
    /\ websocketProviderConnected' = FALSE
    /\ liveTimers' = ClearInterval(ClearInterval(liveTimers, userAddressRefreshInterval),
                                   confirmationMonitorInterval)
    /\ userAddressRefreshInterval' = 0
    /\ confirmationMonitorInterval' = 0
    /\ liveProviders' = liveProviders \ {provider}
    /\ provider' = 0
    /\ pendingRestarts' = RestartAfterError(pendingRestarts)
    /\ alerts' = alerts \cup {"WebSocket Provider Connection Error"}
    /\ usdtFilter' = IF provider # 0 THEN {} ELSE usdtFilter
    /\ listeners' = RemoveAllListeners(listeners, provider)
    /\ UNCHANGED <<serviceVars, notifications, rewardVars, escaped, shutdownCalled, reqs, registered, userAddresses, loads, skippedTicks,
                   db, recs, mons, setts, adminWalletSet, websocketUrlSet, starts, nextId>>

\* A pending setTimeout(startDepositListener, 5000) fires.
RestartFires ==
    /\ pendingRestarts > 0
    /\ pendingRestarts' = pendingRestarts - 1
    /\ starts' = Append(starts, NewStart)
    /\ UNCHANGED <<serviceVars, handlerVars, rewardVars, escaped, shutdownCalled, reqs, registryVars, skippedTicks, db, recs, mons, setts, alerts, adminWalletSet, websocketUrlSet,
                   provider, liveProviders, liveTimers, userAddressRefreshInterval,
                   confirmationMonitorInterval, websocketProviderConnected, nextId>>

\* shutdownDepositListener(): clears the two interval handles the module holds,
\* removes the listeners of the module's provider and destroys it, unsets the
\* flag.  It touches neither a pending setTimeout(startDepositListener, 5000) nor
\* a call of startDepositListener suspended at an await.
Shutdown ==
    /\ ~shutdownCalled
    /\ shutdownCalled' = TRUE
    /\ liveTimers' = ClearInterval(ClearInterval(liveTimers, userAddressRefreshInterval),
                                   confirmationMonitorInterval)
    /\ userAddressRefreshInterval' = 0
    /\ confirmationMonitorInterval' = 0
    /\ liveProviders' = liveProviders \ {provider}
    /\ provider' = 0
    /\ websocketProviderConnected' = FALSE
    /\ usdtFilter' = IF provider # 0 THEN {} ELSE usdtFilter
    /\ listeners' = RemoveAllListeners(listeners, provider)
    /\ UNCHANGED <<serviceVars, notifications, rewardVars, escaped, reqs, registered, userAddresses, loads, skippedTicks,
                   db, recs, mons, setts, alerts, adminWalletSet, websocketUrlSet, starts,
                   nextId, pendingRestarts>>

(***************************************************************************)
(* SpecListener: the listener from initializeDepositListener on.           *)
(***************************************************************************)
InitListener ==
    /\ db = [u \in Users |-> EmptyUser]
    /\ NoTasks
    /\ adminWalletSet = TRUE
    /\ registered = Users
    /\ userAddresses = NewAddresses(registered)
    /\ usdtFilter = {}
    /\ websocketUrlSet \in BOOLEAN
    /\ provider = 0
    /\ liveProviders = {}
    /\ liveTimers = {}
    /\ userAddressRefreshInterval = 0
    /\ confirmationMonitorInterval = 0
    /\ websocketProviderConnected = FALSE
    /\ pendingRestarts = 0
    /\ starts = <<NewStart>>
    /\ nextId = 1

NextListener ==
    \/ \E i \in DOMAIN starts, constructorThrows \in BOOLEAN : StartBegin(i, constructorThrows)
    \/ \E j \in DOMAIN loads, ok \in BOOLEAN : LoadFind(j, ok)
    \/ \E j \in DOMAIN loads : LoadAssign(j)
    \/ \E i \in DOMAIN starts, usdt \in UsdtOutcomes : StartArm(i, usdt)
    \/ \E i \in DOMAIN starts : StartFinish(i)
    \/ \E p \in liveProviders : ProviderError(p)
    \/ RestartFires

SpecListener == InitListener /\ [][NextListener]_vars

(***************************************************************************)
(* SpecShutdown: the listener, and gracefulShutdown calling                *)
(* shutdownDepositListener once at any moment.                             *)
(***************************************************************************)
NextShutdown ==
    \/ NextListener
    \/ Shutdown

SpecShutdown == InitListener /\ [][NextShutdown]_vars


(***************************************************************************)
(* The block handler and the USDT Transfer handler                         *)
(***************************************************************************)
\* Variant: the handlers have no connected test.
HandlerReturnsEarlyNever(connected, handle) == FALSE
\* if (!websocketProviderConnected || !provider) return;
HandlerReturnsEarly(connected, handle) == ~connected \/ handle = 0

NewNotification(kind, p, ignored) ==
    [kind |-> kind, source |-> p, pc |-> IF ignored THEN "ignored" ELSE "admitted",
     getBlockCalls |-> 0, dispatched |-> 0]

\* Transactions of a block as getBlock(blockNumber, true) returns them; to is
\* NoAddress (null) for a contract creation; value in 1/1000 ETH.
NoAddress == "null"
Tx(hash, to, value) == [hash |-> hash, to |-> to, value |-> value]
Blocks ==
    {<<>>,
     <<Tx("t1", "0xA1", 7)>>,
     <<Tx("t1", "0xA1", 0)>>,
     <<Tx("t1", NoAddress, 7)>>,
     <<Tx("t1", "0xA1", 7), Tx("t2", "0xC3", 10)>>}
\* What await provider.getBlock(...) gives: no block, an exception, a block.
BlockOutcomes == {"none", "throws", "block"}

\* tx.to && userAddresses.has(tx.to.toLowerCase()) && tx.value > 0n
IsEthDeposit(tx) == tx.to # NoAddress /\ EthMatches(tx.to) /\ tx.value > 0
EthDeposits(block) == SelectSeq(block, IsEthDeposit)
\* setImmediate(() => recordDetectedDeposit(tx.hash, 'ETH', ethAmount, tx.from, tx.to, blockNumber))
DispatchedFrom(block) ==
    [k \in 1..Len(EthDeposits(block)) |->
        NewRecordCall(EthDeposits(block)[k].hash, EthDeposits(block)[k].value,
                      EthDeposits(block)[k].to)]

\* A provider with a block listener delivers a new block: the handler runs from
\* its entry to the return of the connected test or to the suspension at
\* await provider.getBlock(blockNumber, true).
BlockEvent(p) ==
    /\ p \in liveProviders
    /\ \E l \in listeners : l.provider = p /\ l.kind = "block"
    /\ Len(notifications) < MaxNotifications
    /\ notifications' = Append(notifications,
           IF HandlerReturnsEarly(websocketProviderConnected, provider)
           THEN NewNotification("block", p, TRUE)
           ELSE [NewNotification("block", p, FALSE) EXCEPT !.pc = "getBlock",
                                                            !.getBlockCalls = 1])
    /\ UNCHANGED <<serviceVars, listeners, rewardVars, escaped, shutdownCalled, db, recs, mons, setts, alerts,
                   adminWalletSet, websocketProviderConnected, listenerVars, reqs,
                   registryVars, skippedTicks>>

\* The block handler resumes after getBlock: the loop over the transactions, or
\* the catch block with its notification that is not awaited.
BlockFetched(h, outcome, block) ==
    /\ notifications[h].pc = "getBlock"
    /\ IF outcome = "throws"
       THEN /\ alerts' = alerts \cup {"Deposit Listener Block Processing Error"}
            /\ notifications' = [notifications EXCEPT ![h].pc = "failed"]
            /\ recs' = recs
       ELSE IF outcome = "none"
       THEN /\ notifications' = [notifications EXCEPT ![h].pc = "done"]
            /\ UNCHANGED <<alerts, recs>>
       ELSE /\ Len(recs) + Len(DispatchedFrom(block)) <= MaxRecordCalls
            /\ recs' = recs \o DispatchedFrom(block)
            /\ notifications' = [notifications EXCEPT
                                    ![h].pc = "done",
                                    ![h].dispatched = Len(DispatchedFrom(block))]
            /\ alerts' = alerts
    /\ UNCHANGED <<serviceVars, listeners, rewardVars, escaped, shutdownCalled, db, mons, setts,
                   adminWalletSet, websocketProviderConnected, listenerVars, reqs,
                   registryVars, skippedTicks>>

\* Amounts of a Transfer event after formatUnits(amount, 6), in 1/1000 USDT.
TransferAmounts == {0, 7}

\* A provider with a Transfer listener delivers an event that passes the filter
\* the listener was attached with: the whole handler, which awaits nothing
\* before it dispatches.
TransferEvent(p, tx, amt, to) ==
    /\ p \in liveProviders
    /\ \E l \in listeners :
           l.provider = p /\ l.kind = "Transfer" /\ toLowerCase(to) \in l.filter
    /\ Len(notifications) < MaxNotifications
    /\ IF HandlerReturnsEarly(websocketProviderConnected, provider)
       THEN /\ notifications' = Append(notifications, NewNotification("Transfer", p, TRUE))
            /\ recs' = recs
       ELSE IF amt > 0
       THEN /\ Len(recs) < MaxRecordCalls
            /\ recs' = Append(recs, NewRecordCall(tx, amt, to))
            /\ notifications' = Append(notifications,
                   [NewNotification("Transfer", p, FALSE) EXCEPT !.pc = "done",
                                                                 !.dispatched = 1])
       ELSE /\ notifications' = Append(notifications,
                   [NewNotification("Transfer", p, FALSE) EXCEPT !.pc = "done"])
            /\ recs' = recs
    /\ UNCHANGED <<serviceVars, listeners, rewardVars, escaped, shutdownCalled, db, mons, setts, alerts,
                   adminWalletSet, websocketProviderConnected, listenerVars, reqs,
                   registryVars, skippedTicks>>

(***************************************************************************)
(* SpecHandlers: the listener with its shutdown, and the providers         *)
(* delivering blocks and Transfer events to the handlers attached to them. *)
(***************************************************************************)
NextHandlers ==
    \/ NextShutdown
    \/ \E p \in liveProviders : BlockEvent(p)
    \/ \E h \in DOMAIN notifications, outcome \in BlockOutcomes, block \in Blocks :
           BlockFetched(h, outcome, block)
    \/ \E p \in liveProviders, tx \in TxHashes, amt \in TransferAmounts, to \in ChainAddresses :
           TransferEvent(p, tx, amt, to)

SpecHandlers == InitListener /\ [][NextHandlers]_vars

(***************************************************************************)
(* SpecRegistry: one startup of the listener that stays connected (the     *)
(* provider is created and raises no error), its refresh interval, and     *)
(* accounts registering meanwhile.                                         *)
(***************************************************************************)
InitRegistry ==
    /\ db = [u \in Users |-> EmptyUser]
    /\ NoTasks
    /\ adminWalletSet = TRUE
    /\ registered \in {{"u1"}, {"u1", "u4"}}
    /\ userAddresses = NewAddresses(registered)
    /\ usdtFilter = {}
    /\ websocketUrlSet = TRUE
    /\ provider = 0
    /\ liveProviders = {}
    /\ liveTimers = {}
    /\ userAddressRefreshInterval = 0
    /\ confirmationMonitorInterval = 0
    /\ websocketProviderConnected = FALSE
    /\ pendingRestarts = 0
    /\ starts = <<NewStart>>
    /\ nextId = 1

NextRegistry ==
    \/ \E i \in DOMAIN starts : StartBegin(i, FALSE)
    \/ \E j \in DOMAIN loads, ok \in BOOLEAN : LoadFind(j, ok)
    \/ \E j \in DOMAIN loads : LoadAssign(j)
    \/ \E i \in DOMAIN starts, usdt \in UsdtOutcomes : StartArm(i, usdt)
    \/ \E i \in DOMAIN starts : StartFinish(i)
    \/ RefreshTick
    \/ \E u \in Accounts : Register(u)

SpecRegistry == InitRegistry /\ [][NextRegistry]_vars

(***************************************************************************)
(* SpecGate: the confirmation monitor on its interval timer around one     *)
(* startup of the listener.  The process starts with deposits of an        *)
(* earlier run still unconfirmed in the store; startDepositListener has    *)
(* created its provider and is suspended at await loadUserAddresses(),     *)
(* which has returned.  The provider may raise an error at any moment.     *)
(***************************************************************************)
InitGate ==
    /\ db \in SeedStores
    /\ ServicesIdle
    /\ reqs = <<>>
    /\ loads = <<[NewLoad(1) EXCEPT !.pc = "done"]>>
    /\ skippedTicks = 0
    /\ recs = <<>>
    /\ mons = <<>>
    /\ setts = <<>>
    /\ alerts = {}
    /\ adminWalletSet = TRUE
    /\ registered = Users
    /\ userAddresses = NewAddresses(registered)
    /\ usdtFilter = {}
    /\ websocketUrlSet = TRUE
    /\ provider = 1
    /\ liveProviders = {1}
    /\ liveTimers = {}
    /\ userAddressRefreshInterval = 0
    /\ confirmationMonitorInterval = 0
    /\ websocketProviderConnected = FALSE
    /\ pendingRestarts = 0
    /\ starts = <<[NewStart EXCEPT !.pc = "awaitLoad"]>>
    /\ nextId = 2

\* A tick of an interval armed with setInterval(monitorConfirmations, ...) and
\* not cleared since.
MonitorTimerFires ==
    /\ \E t \in liveTimers : t.kind = "monitor"
    /\ MonitorTick

NextGate ==
    \/ \E i \in DOMAIN starts, usdt \in UsdtOutcomes : StartArm(i, usdt)
    \/ \E i \in DOMAIN starts : StartFinish(i)
    \/ \E p \in liveProviders : ProviderError(p)
    \/ MonitorTimerFires
    \/ \E i \in DOMAIN mons, receipt \in ReceiptOutcomes : MonitorLookup(i, receipt)
    \/ \E i \in DOMAIN mons : MonitorSave(i)
    \/ \E i \in DOMAIN setts : SettleFind(i)
    \/ \E i \in DOMAIN setts : SettleCredit(i)
    \/ \E i \in DOMAIN setts, ok \in BOOLEAN : SettleTrimSave(i, ok)
    \/ \E i \in DOMAIN setts, outcome \in SweepOutcomes : SettleSweep(i, outcome)
    \/ \E i \in DOMAIN setts, ok \in BOOLEAN : SettleCatchSave(i, ok)

SpecGate == InitGate /\ [][NextGate]_vars

(***************************************************************************)
(* SpecBatch: monitor ticks and catch-up runs over stores that hold two    *)
(* deposits, with store calls that may reject.  A receipt arrives at the   *)
(* required depth or the wait for it rejects.                              *)
(***************************************************************************)
\* Two unconfirmed deposits of one account; one confirmed deposit on each of two
\* accounts.
BatchStores ==
    { [u \in Users |-> IF u = "u1" THEN SeedUser(<<"t1", "t2">>) ELSE EmptyUser],
      [u \in Users |-> IF u = "u1" THEN StuckUser(<<"t1">>, <<TRUE>>)
                       ELSE IF u = "u2" THEN StuckUser(<<"t2">>, <<TRUE>>) ELSE EmptyUser] }

InitBatch ==
    /\ db \in BatchStores
    /\ NoTasks
    /\ adminWalletSet = TRUE
    /\ websocketProviderConnected = TRUE
    /\ ListenerIdle

\* waitForTransaction resolves at the required depth or rejects.
BatchReceipts == {"enough", "throws"}

NextBatch ==
    \/ MonitorTick
    \/ MonitorAggregateFails
    \/ \E i \in DOMAIN mons, receipt \in BatchReceipts : MonitorLookup(i, receipt)
    \/ \E i \in DOMAIN mons : MonitorSave(i)
    \/ \E i \in DOMAIN mons : MonitorStoreFails(i)
    \/ CatchUp
    \/ CatchUpAggregateFails
    \/ \E i \in DOMAIN setts : SettleFind(i)
    \/ \E i \in DOMAIN setts : SettleCredit(i)
    \/ \E i \in DOMAIN setts : SettleStoreFails(i)
    \/ \E i \in DOMAIN setts, ok \in BOOLEAN : SettleTrimSave(i, ok)
    \/ \E i \in DOMAIN setts : SettleSweep(i, "throws")
    \/ \E i \in DOMAIN setts : SettleCatchSave(i, TRUE)

SpecBatch == InitBatch /\ [][NextBatch]_vars

(***************************************************************************)
(* SpecPipeline: recorder, confirmation monitor, settlement and catch-up   *)
(* together, from an empty store.  Transfers of one amount reach the       *)
(* address of u1 or an address the store query matches to no account; the  *)
(* price fetcher answers with a price that puts the transfer below or      *)
(* above the minimum; the receipt of a transaction arrives or the wait for *)
(* it times out.                                                           *)
(***************************************************************************)
PipelineAmounts == {10}
PipelineAddresses == {"0xA1", "0xC3"}
PipelinePrices == {200, 3000}

\* waitForTransaction resolves at the required depth or with null (timeout).
PipelineReceipts == {"enough", "null"}

NextPipeline ==
    \/ \E tx \in TxHashes, amt \in PipelineAmounts, to \in PipelineAddresses :
           RecordCall(tx, amt, to)
    \/ \E i \in DOMAIN recs : RecordDedup(i)
    \/ \E i \in DOMAIN recs, price \in PipelinePrices : RecordFindUser(i, price)
    \/ \E i \in DOMAIN recs : RecordSave(i)
    \/ MonitorTick
    \/ \E i \in DOMAIN mons, receipt \in PipelineReceipts : MonitorLookup(i, receipt)
    \/ \E i \in DOMAIN mons : MonitorSave(i)
    \/ CatchUp
    \/ \E i \in DOMAIN setts : SettleFind(i)
    \/ \E i \in DOMAIN setts : SettleCredit(i)
    \/ \E i \in DOMAIN setts, ok \in BOOLEAN : SettleTrimSave(i, ok)
    \/ \E i \in DOMAIN setts : SettleSweep(i, "throws")
    \/ \E i \in DOMAIN setts : SettleCatchSave(i, TRUE)

SpecPipeline == InitRecord /\ [][NextPipeline]_vars

(***************************************************************************)
(* SpecUnassigned: the recorder alone, from an empty store, with transfers *)
(* to the address of u1 and to an address no account holds (the listener   *)
(* dispatches what its address Set or its Transfer filter matched, and     *)
(* both can be older than the store).                                      *)
(***************************************************************************)
\* Addresses no document of the store holds as walletAddress, in any case.
UnassignedAddresses == {"0xd4"}

NextUnassigned ==
    \/ \E tx \in TxHashes, amt \in PipelineAmounts,
          to \in {"0xA1"} \cup UnassignedAddresses : RecordCall(tx, amt, to)
    \/ \E i \in DOMAIN recs : RecordDedup(i)
    \/ \E i \in DOMAIN recs, price \in PipelinePrices : RecordFindUser(i, price)
    \/ \E i \in DOMAIN recs : RecordSave(i)

SpecUnassigned == InitRecord /\ [][NextUnassigned]_vars

(***************************************************************************)
(* SpecNotify: calls of notifyAdminOfError under every mail configuration, *)
(* with every kind of error argument, while sending works or fails.        *)
(***************************************************************************)
NextNotify ==
    \E config \in MailConfigs, error \in ErrorArgs, send \in SendOutcomes :
        NotifyCall(config, error, send)

SpecNotify == InitRecord /\ [][NextNotify]_vars

(***************************************************************************)
(* sweepEth, sweepUsdt.  Balances are in wei and in raw token units, kept  *)
(* small; the fee per gas is 1 or 2 wei.                                   *)
(***************************************************************************)
\* gasLimit of sweepEth and of sweepUsdt.
ETH_GAS_LIMIT == 21000
USDT_GAS_LIMIT == 65000

\* What getGasPrice returns: EIP-1559 fee data (type 2) or a legacy gas price.
GasPriceData ==
    { [type |-> 2, maxFeePerGas |-> 2, gasPrice |-> 0],
      [type |-> 0, maxFeePerGas |-> 0, gasPrice |-> 1] }

\* provider.getBalance(address) and usdtContract.balanceOf(address)
EthBalances == {0, 21000, 21001, 42000, 42001, 65000, 129999, 130000}
UsdtBalances == {0, 1, 250}

\* maxGasCost = gasLimit * (maxFeePerGas of type 2, gasPrice otherwise)
MaxGasCost(gasLimit, gasPrices) ==
    IF gasPrices.type = 2 THEN gasLimit * gasPrices.maxFeePerGas
    ELSE gasLimit * gasPrices.gasPrice

\* Variant: a balance equal to the gas cost is let through.
InsufficientForGasStrict(balance, maxGasCost) == balance < maxGasCost
\* if (balance <= maxGasCost) return { success: false, reason: 'insufficient_for_gas' }
InsufficientForGas(balance, maxGasCost) == balance <= maxGasCost

Refused(reason) == [success |-> FALSE, reason |-> reason, broadcast |-> FALSE, value |-> 0]
\* wallet.sendTransaction / usdtContract.transfer is called with the value; the node
\* takes the transaction (the call resolves with its hash) or refuses it (the
\* call rejects and so does the sweep).
Broadcast(value, send) ==
    [success |-> send = "accepted", reason |-> IF send = "accepted" THEN "" ELSE "rejects",
     broadcast |-> TRUE, value |-> value]

sweepEth(balance, gasPrices, send) ==
    LET maxGasCost == MaxGasCost(ETH_GAS_LIMIT, gasPrices)
    IN IF InsufficientForGas(balance, maxGasCost) THEN Refused("insufficient_for_gas")
       ELSE Broadcast(balance - maxGasCost, send)

sweepUsdt(configured, usdtBalanceRaw, ethBalance, gasPrices, send) ==
    LET maxGasCost == MaxGasCost(USDT_GAS_LIMIT, gasPrices)
    IN IF ~configured THEN Refused("usdt_contract_not_configured")
       ELSE IF usdtBalanceRaw = 0 THEN Refused("zero_usdt_balance")
       ELSE IF ethBalance < maxGasCost THEN Refused("insufficient_eth_for_gas")
       ELSE Broadcast(usdtBalanceRaw, send)

\* One call of sweepEth or sweepUsdt with what its reads returned.
SweepCall(asset, configured, usdt, eth, gasPrices, send) ==
    /\ Len(sweepCalls) < MaxSweepCalls
    /\ sweepCalls' = Append(sweepCalls,
           [asset |-> asset, configured |-> configured, usdtBalance |-> usdt,
            ethBalance |-> eth, gasPrices |-> gasPrices,
            result |-> IF asset = "ETH" THEN sweepEth(eth, gasPrices, send)
                       ELSE sweepUsdt(configured, usdt, eth, gasPrices, send)])
    /\ UNCHANGED <<db, recs, mons, setts, alerts, adminWalletSet,
                   websocketProviderConnected, listenerVars, reqs, registryVars,
                   skippedTicks, rewardVars, handlerVars, priceCache, clock, priceCalls, notifyCalls, escaped,
                   shutdownCalled>>

(***************************************************************************)
(* SpecSweep: calls of the two sweep functions over the balances, the fee  *)
(* data and the answers of the node.                                       *)
(***************************************************************************)
NextSweep ==
    \E asset \in {"ETH", "USDT"}, configured \in BOOLEAN, usdt \in UsdtBalances,
       eth \in EthBalances, gasPrices \in GasPriceData, send \in {"accepted", "rejected"} :
        SweepCall(asset, configured, usdt, eth, gasPrices, send)

SpecSweep == InitRecord /\ [][NextSweep]_vars

(***************************************************************************)
(* getPriceInUSD.  The clock counts half TTLs; prices are in dollars.      *)
(***************************************************************************)
\* priceCache.ttl, in ticks of the clock.
PRICE_CACHE_TTL == 2

\* Symbols the callers pass: one with an entry in ASSET_IDS, one without.
AssetSymbols == {"ETH", "DOGE"}
ASSET_IDS == {"ETH", "USDT"}

\* What axios.get brings: a rejection (network error, timeout, HTTP status), a body
\* without a number at [assetId].usd, a number.
ApiResponses ==
    { [kind |-> "fails", usd |-> 0], [kind |-> "text", usd |-> 0],
      [kind |-> "number", usd |-> 0], [kind |-> "number", usd |-> -5],
      [kind |-> "number", usd |-> 3000], [kind |-> "number", usd |-> 3100] }

\* priceCache.data[key] is set
Cached(cache, key) == key \in DOMAIN cache

\* priceCache.data[key] && (now - priceCache.data[key].timestamp < priceCache.ttl)
Fresh(cache, key, now) == Cached(cache, key) /\ now - cache[key].timestamp < PRICE_CACHE_TTL

\* Variant: zero passes as a price.
InvalidPriceNegativeOnly(response) == response.kind # "number" \/ response.usd < 0
\* typeof price !== 'number' || price <= 0
InvalidPrice(response) == response.kind # "number" \/ response.usd <= 0

PriceReturned(price, fetched) == [kind |-> "price", price |-> price, fetched |-> fetched]
PriceThrown(fetched) == [kind |-> "throws", price |-> 0, fetched |-> fetched]

\* Date.now() moves on.
ClockTick ==
    /\ clock < MaxClock
    /\ clock' = clock + 1
    /\ UNCHANGED <<db, recs, mons, setts, alerts, adminWalletSet,
                   websocketProviderConnected, listenerVars, reqs, registryVars,
                   skippedTicks, rewardVars, handlerVars, priceCache, priceCalls, sweepCalls, notifyCalls, escaped,
                   shutdownCalled>>

\* From the entry to the return of the cached price, to the throw for an
\* unsupported symbol, or to the suspension at await axios.get(...).
PriceCall(asset) ==
    /\ Len(priceCalls) < MaxPriceCalls
    /\ priceCalls' = Append(priceCalls,
           IF Fresh(priceCache, asset, clock)
           THEN [asset |-> asset, now |-> clock, pc |-> "done",
                 result |-> PriceReturned(priceCache[asset].price, FALSE)]
           ELSE IF asset \notin ASSET_IDS
           THEN [asset |-> asset, now |-> clock, pc |-> "done", result |-> PriceThrown(FALSE)]
           ELSE [asset |-> asset, now |-> clock, pc |-> "fetch",
                 result |-> PriceThrown(FALSE)])
    /\ UNCHANGED <<db, recs, mons, setts, alerts, adminWalletSet,
                   websocketProviderConnected, listenerVars, reqs, registryVars,
                   skippedTicks, rewardVars, handlerVars, priceCache, clock, sweepCalls, notifyCalls, escaped,
                   shutdownCalled>>

\* The continuation after axios.get: the validity test, the write of the cache
\* entry with the timestamp taken at the entry of the call, the stale fallbacks of
\* the invalid response and of the catch block.
PriceFetchReturns(i, response) ==
    /\ priceCalls[i].pc = "fetch"
    /\ LET key == priceCalls[i].asset
       IN IF response.kind = "fails" \/ InvalidPrice(response)
          THEN /\ priceCache' = priceCache
               /\ priceCalls' = [priceCalls EXCEPT ![i].pc = "done", ![i].result =
                      IF Cached(priceCache, key)
                      THEN PriceReturned(priceCache[key].price, TRUE)
                      ELSE PriceThrown(TRUE)]
          ELSE /\ priceCache' = [k \in DOMAIN priceCache \cup {key} |->
                                   IF k = key
                                   THEN [price |-> response.usd,
                                         timestamp |-> priceCalls[i].now]
                                   ELSE priceCache[k]]
               /\ priceCalls' = [priceCalls EXCEPT ![i].pc = "done", ![i].result =
                      PriceReturned(response.usd, TRUE)]
    /\ UNCHANGED <<db, recs, mons, setts, alerts, adminWalletSet,
                   websocketProviderConnected, listenerVars, reqs, registryVars,
                   skippedTicks, rewardVars, handlerVars, clock, sweepCalls, notifyCalls, escaped,
                   shutdownCalled>>

(***************************************************************************)
(* SpecPrice: calls of getPriceInUSD, overlapping or not, while the clock  *)
(* runs past the TTL.                                                      *)
(***************************************************************************)
NextPrice ==
    \/ ClockTick
    \/ \E asset \in AssetSymbols : PriceCall(asset)
    \/ \E i \in DOMAIN priceCalls, response \in ApiResponses : PriceFetchReturns(i, response)

SpecPrice == InitRecord /\ [][NextPrice]_vars

(***************************************************************************)
(* Helpers of the properties.                                              *)
(***************************************************************************)
\* Calls of processConfirmedDeposit for tx that carried out the credit update.
CreditWrites(tx) == {i \in DOMAIN setts : setts[i].txHash = tx /\ setts[i].credited}

\* Entries of type deposit for tx in a history, and in the history of u.
EntriesFor(h, tx) == {j \in DOMAIN h : h[j].type = "deposit" /\ h[j].tx = tx}
DepositEntries(u, tx) == EntriesFor(db[u].creditsHistory, tx)

RECURSIVE CreditedValue(_, _)
\* The sum of usdValue over the first n deposit records of u that a settle call credited.
CreditedValue(u, n) ==
    IF n = 0 THEN 0
    ELSE CreditedValue(u, n - 1)
         + (IF CreditWrites(db[u].deposits[n].txHash) # {}
            THEN db[u].deposits[n].usdValue ELSE 0)

\* All deposit records with this txHash, over all accounts.
RecordsWith(tx) ==
    {<<u, i>> \in Users \X (1..MaxRecordCalls) :
        i \in DOMAIN db[u].deposits /\ db[u].deposits[i].txHash = tx}

\* The call i of processConfirmedDeposit takes a step.
SettleSteps(i) == i \in DOMAIN setts /\ setts'[i] # setts[i]

\* The status in the store of the record a settle call for tx would read.
StoredStatus(tx) ==
    LET u == FindByTxHash(tx)
    IN IF u = NoUser THEN "none"
       ELSE db[u].deposits[FindIndex(db[u].deposits, tx)].status

StoredDeposit(tx) ==
    LET u == FindByTxHash(tx) IN db[u].deposits[FindIndex(db[u].deposits, tx)]

(***************************************************************************)
(* C1.  However often and from whichever callers processConfirmedDeposit   *)
(* is invoked for a transaction, the credit update is carried out at most  *)
(* once for it, the account's balance is the sum of the values of the      *)
(* deposits credited (each counted once), and the history holds at most    *)
(* one deposit entry for the transaction.                                  *)
(***************************************************************************)
C1_CreditedExactlyOnce ==
    \A u \in Users :
        /\ db[u].credits = CreditedValue(u, Len(db[u].deposits))
        /\ \A tx \in TxHashes :
               /\ Cardinality(CreditWrites(tx)) <= 1
               /\ Cardinality(DepositEntries(u, tx)) <= 1

(***************************************************************************)
(* C2.  A deposit record's status changes only unconfirmed -> confirmed,   *)
(* confirmed -> credited or unconfirmed -> failed; credited and failed are *)
(* never left.                                                             *)
(***************************************************************************)
AllowedTransitions ==
    { <<"unconfirmed", "confirmed">>, <<"confirmed", "credited">>,
      <<"unconfirmed", "failed">> }

C2_StatusStateMachine ==
    [][\A u \in Users : \A k \in DOMAIN db[u].deposits :
          \/ db'[u].deposits[k].status = db[u].deposits[k].status
          \/ <<db[u].deposits[k].status, db'[u].deposits[k].status>> \in AllowedTransitions]_vars

(***************************************************************************)
(* C3.  After any number of recordDetectedDeposit calls, at most one       *)
(* deposit record with a given txHash exists over all accounts, a single   *)
(* account's deposit list included.                                        *)
(***************************************************************************)
C3_OneRecordPerTxHash == \A tx \in TxHashes : Cardinality(RecordsWith(tx)) <= 1

(***************************************************************************)
(* C4.  A processConfirmedDeposit call that finds its record credited or   *)
(* failed returns at once: the store is unchanged, the call has carried    *)
(* out no credit and has attempted no sweep.                               *)
(***************************************************************************)
C4_SettleOnProcessedIsNoOp ==
    [][\A i \in DOMAIN setts :
          (/\ SettleSteps(i)
           /\ setts[i].pc = "find"
           /\ StoredStatus(setts[i].txHash) \in {"credited", "failed"})
          => /\ db' = db
             /\ setts'[i].pc = "done"
             /\ ~setts'[i].credited
             /\ setts'[i].sweep = "none"]_vars

\* A second call for a transaction another call has credited found it credited
\* and returned.
C4_Witness ==
    \E i \in DOMAIN setts :
        /\ setts[i].pc = "done"
        /\ setts[i].readStatus = "credited"
        /\ ~setts[i].credited
        /\ \E j \in DOMAIN setts : j # i /\ setts[j].txHash = setts[i].txHash /\ setts[j].credited

(***************************************************************************)
(* C5.  The credit update takes effect only if the record's status is      *)
(* confirmed at the moment of the write; otherwise it changes nothing.     *)
(***************************************************************************)
C5_CreditOnlyIfConfirmed ==
    [][\A i \in DOMAIN setts :
          (/\ SettleSteps(i)
           /\ setts[i].pc = "credit"
           /\ db[setts[i].user].deposits[setts[i].idx].status # "confirmed")
          => db' = db]_vars

(***************************************************************************)
(* C6.  A deposit record whose status is failed has contributed nothing:   *)
(* no call credited its transaction and no deposit history entry exists    *)
(* for it.                                                                 *)
(***************************************************************************)
C6_FailedContributesNothing ==
    \A u \in Users : \A k \in DOMAIN db[u].deposits :
        db[u].deposits[k].status = "failed"
        => /\ CreditWrites(db[u].deposits[k].txHash) = {}
           /\ \A o \in Users : DepositEntries(o, db[u].deposits[k].txHash) = {}


(***************************************************************************)
(* C7.  Once processConfirmedDeposit has credited a deposit, no step of    *)
(* its sweep part (the sweep reporting failure, the sweep throwing, the    *)
(* save of the catch block) changes any balance or any record's status,    *)
(* removes the deposit entry of the credited transaction from the history  *)
(* or leaves the history longer than it was.                               *)
(***************************************************************************)
InSweepPart(i) == SettleSteps(i) /\ setts[i].pc \in {"sweep", "catchSave"}

C8_SweepOutcomeRecorded ==
    \A i \in DOMAIN setts :
        (setts[i].pc = "done" /\ setts[i].credited)
        => /\ setts[i].sweep = "success" => StoredDeposit(setts[i].txHash).sweepTxHash # ""
           /\ setts[i].sweep = "failed" => StoredDeposit(setts[i].txHash).sweepError # ""

(***************************************************************************)
(* C9.  At any time at most one provider connection is live, at most one   *)
(* registry-refresh timer and at most one confirmation-monitor timer.      *)
(***************************************************************************)
TimersOfKind(kind) == {t \in liveTimers : t.kind = kind}

C9_SingleConnection ==
    /\ Cardinality(liveProviders) <= 1
    /\ Cardinality(TimersOfKind("refresh")) <= 1
    /\ Cardinality(TimersOfKind("monitor")) <= 1

(***************************************************************************)
(* C10.  A startup attempt that fails in the try block is reported and     *)
(* schedules exactly one retry; an attempt that finds no WebSocket URL     *)
(* configured is reported and returns without scheduling a retry and       *)
(* without touching provider, timers or the connected flag.                *)
(***************************************************************************)
StartEnds(i, how) == starts[i].pc # how /\ starts'[i].pc = how

C11_ErrorTearsDownBeforeRestart ==
    [][(websocketProviderConnected /\ \E p \in liveProviders : ProviderError(p))
           => (liveTimers' = {} /\ liveProviders' = {})]_vars

(***************************************************************************)
(* C12.  A call of recordDetectedDeposit that values the transfer below    *)
(* MIN_DEPOSIT_USD returns at the minimum-value filter: the step leaves    *)
(* the store as it is and the call never reaches its save.  No deposit     *)
(* record holds a value below the minimum and no balance is changed by     *)
(* the recorder.                                                           *)
(***************************************************************************)
C12_BelowMinimumDiscarded ==
    /\ [](\A u \in Users :
             /\ db[u].credits = 0
             /\ \A k \in DOMAIN db[u].deposits :
                    db[u].deposits[k].usdValue >= MIN_DEPOSIT_USD)
    /\ [][\A i \in DOMAIN recs, price \in PriceOutcomes :
              ( /\ RecordFindUser(i, price)
                /\ FindByWalletAddress(toLowerCase(recs[i].toAddress)) # NoUser
                /\ ValueAtPrice(recs[i].cryptoAmount, price) < MIN_DEPOSIT_USD )
              => ( /\ db' = db
                   /\ recs'[i].pc = "done"
                   /\ recs'[i].result = "below_minimum" )]_vars

\* A call that valued its transfer at a positive amount below the minimum has returned.
C12_Witness ==
    \E i \in DOMAIN recs :
        /\ recs[i].result = "below_minimum"
        /\ recs[i].usdValue > 0
        /\ recs[i].usdValue < MIN_DEPOSIT_USD

(***************************************************************************)
(* C13.  When getPriceInUSD throws or returns no positive price, the call  *)
(* of recordDetectedDeposit goes on to its save with usdValue 0: the       *)
(* deposit is recorded with value zero.                                    *)
(***************************************************************************)
C13_PriceFailureRecordsZero ==
    [][\A i \in DOMAIN recs, price \in PriceOutcomes :
           ( /\ RecordFindUser(i, price)
             /\ FindByWalletAddress(toLowerCase(recs[i].toAddress)) # NoUser
             /\ price <= 0 )
           => ( /\ recs'[i].pc = "save"
                /\ recs'[i].usdValue = 0 )]_vars

RECURSIVE SumCredited(_, _)
\* The sum of usdValue over those of the first n deposit records of u that are credited.
SumCredited(u, n) ==
    IF n = 0 THEN 0
    ELSE SumCredited(u, n - 1)
         + (IF db[u].deposits[n].status = "credited" THEN db[u].deposits[n].usdValue ELSE 0)

(***************************************************************************)
(* C14.  One run of depositCatchUpJob over records left in confirmed, with *)
(* nothing else running: every such record ends credited and stays so, at  *)
(* every moment each balance is the sum of the values of the account's     *)
(* credited records, and a record that is unconfirmed is left alone.       *)
(***************************************************************************)
C14_CatchUpCreditsStuck ==
    /\ [](\A u \in Users : db[u].credits = SumCredited(u, Len(db[u].deposits)))
    /\ [][\A u \in Users : \A k \in DOMAIN db[u].deposits :
              db[u].deposits[k].status = "unconfirmed" => db'[u].deposits[k] = db[u].deposits[k]]_vars
    /\ <>[](\A u \in Users : \A k \in DOMAIN db[u].deposits :
              db[u].deposits[k].status \in {"credited", "unconfirmed"})

\* The call the job made has credited both stuck records of one account and returned.
C14_Witness ==
    /\ Len(setts) = 2
    /\ \A i \in DOMAIN setts : setts[i].pc = "done" /\ setts[i].credited
    /\ db["u1"].credits = SeedValue("t1") + SeedValue("t2")
    /\ \A k \in DOMAIN db["u1"].deposits : db["u1"].deposits[k].status = "credited"

(***************************************************************************)
(* C15.  With the connection live, the monitor ticking and every recorded  *)
(* transaction reaching the required depth, a record that was confirmed    *)
(* and credited has raised the balance of its account by its usdValue:     *)
(* each balance is the sum of the values of the account's credited records.*)
(***************************************************************************)
C15_CreditedByItsValue ==
    \A u \in Users : db[u].credits = SumCredited(u, Len(db[u].deposits))

(***************************************************************************)
(* C16.  For a call of processConfirmedDeposit with ADMIN_WALLET_ADDRESS   *)
(* unset or on an account without privateKey: its credit step adds the     *)
(* value to the balance and sets the record credited; its step at the      *)
(* sweep gate comes after that credit, writes nothing to the store (the    *)
(* credit is not rolled back), raises the alert of the case, and returns   *)
(* without calling sweepWallet.                                            *)
(***************************************************************************)
C16_NoSweepStillCredited ==
    [][\A i \in DOMAIN setts :
           (SettleSteps(i) /\ (~adminWalletSet \/ setts[i].user \in KeylessUsers))
           => LET u == setts[i].user
                  k == setts[i].idx
              IN /\ setts[i].pc = "credit" =>
                        /\ db'[u].credits = db[u].credits + setts[i].creditsToAdd
                        /\ db'[u].deposits[k].status = "credited"
                        /\ setts'[i].pc \in {"trim", "sweep"}
                 /\ setts[i].pc = "sweep" =>
                        /\ setts[i].credited
                        /\ db' = db
                        /\ setts'[i].pc = "done"
                        /\ setts'[i].credited
                        /\ setts'[i].sweep = "skipped"
                        /\ alerts' = alerts \cup
                               {IF ~adminWalletSet THEN "Admin Wallet Not Configured"
                                ELSE "User Private Key Missing"}]_vars

\* With the admin wallet configured, the call for the deposit of the account
\* without key has credited it and returned at the sweep gate.
C16_Witness ==
    /\ adminWalletSet
    /\ "User Private Key Missing" \in alerts
    /\ db["u2"].credits = SeedValue("t2")
    /\ \E i \in DOMAIN setts :
           /\ setts[i].txHash = "t2"
           /\ setts[i].pc = "done"
           /\ setts[i].credited
           /\ setts[i].sweep = "skipped"

\* With the admin wallet unset, a call has credited and returned at the sweep gate.
C16_WitnessNoAdminWallet ==
    /\ ~adminWalletSet
    /\ "Admin Wallet Not Configured" \in alerts
    /\ \E i \in DOMAIN setts :
           setts[i].pc = "done" /\ setts[i].credited /\ setts[i].sweep = "skipped"

RECURSIVE SumAmounts(_, _)
\* The sum of the amounts of the first n entries of a history.
SumAmounts(h, n) == IF n = 0 THEN 0 ELSE SumAmounts(h, n - 1) + h[n].amount

\* The number of history entries written for u so far: one per credit update of a
\* settle call, one per saved request.
Pushes(u) ==
    Cardinality({i \in DOMAIN setts : setts[i].credited /\ FindByTxHash(setts[i].txHash) = u})
    + Cardinality({i \in DOMAIN reqs : reqs[i].user = u /\ reqs[i].result = "saved"})

\* No entry of u's history has been cut off.
Untrimmed(u) == Len(db[u].creditsHistory) = Pushes(u)

(***************************************************************************)
(* C17.  For every account whose history has lost no entry to trimming,    *)
(* the balance equals the sum of the amounts of its history entries,       *)
(* however deposit settlement, staking and admin adjustment interleave.    *)
(***************************************************************************)
C17_BalanceIsSumOfHistory ==
    \A u \in Users :
        Untrimmed(u) => db[u].credits = SumAmounts(db[u].creditsHistory, Len(db[u].creditsHistory))

(***************************************************************************)
(* C18.  userAddresses changes only in the assignment step of a call of    *)
(* loadUserAddresses, and then to exactly the lower-cased valid addresses  *)
(* of the accounts its query returned; in every other step, also while a   *)
(* call is in progress, it is the previous set.  It never holds anything   *)
(* but lower-cased valid addresses, and the Transfer filter is created     *)
(* from the whole set as it is at that moment.                             *)
(***************************************************************************)
C18_AddressSetReplacedAtOnce ==
    /\ [](userAddresses \subseteq {toLowerCase(a) : a \in ChainAddresses})
    /\ [][\/ userAddresses' = userAddresses
          \/ \E j \in DOMAIN loads :
                 /\ loads[j].pc = "assign"
                 /\ loads'[j].pc = "done"
                 /\ userAddresses' =
                        {toLowerCase(walletAddress(u)) :
                            u \in {v \in loads[j].found : walletAddress(v) \in ValidAddresses}}]_vars
    /\ [][usdtFilter' \in {usdtFilter, {}, userAddresses}]_vars

\* A refresh by the interval has replaced the set after u3 registered, with the
\* account of the invalid address in the store.
C18_Witness ==
    /\ {"u1", "u3", "u4"} \subseteq registered
    /\ userAddresses = {"0xa1", "0xc3"}
    /\ \E j \in DOMAIN loads : loads[j].owner = 0 /\ loads[j].pc = "done"

(***************************************************************************)
(* C19.  When a refresh by the interval replaces userAddresses on a        *)
(* connected listener whose Transfer listener is attached, every address   *)
(* of the new set is matched from then on by the block handler and by the  *)
(* Transfer filter alike.                                                  *)
(***************************************************************************)
C19_RefreshReachesBothListeners ==
    [][\A j \in DOMAIN loads :
           ( /\ loads[j].owner = 0
             /\ loads[j].pc = "assign"
             /\ loads'[j].pc = "done"
             /\ websocketProviderConnected
             /\ usdtFilter # {} )
           => \A a \in ChainAddresses :
                  toLowerCase(a) \in NewAddresses(loads[j].found)
                      => (EthMatches(a))' /\ (UsdtMatches(a))']_vars

\* C20: a tick of the confirmation monitor that starts while
\* websocketProviderConnected is false starts no check of a deposit record,
\* changes no record and dispatches no call of processConfirmedDeposit.
C20_DisconnectedTickDoesNothing ==
    [][(~websocketProviderConnected /\ MonitorTimerFires)
           => (db' = db /\ mons' = mons /\ setts' = setts /\ recs' = recs)]_vars

\* A tick returned at the gate while the store held deposits the monitor would
\* have picked up.
C20_Witness ==
    /\ skippedTicks > 0
    /\ ~websocketProviderConnected
    /\ PendingDeposits # <<>>
    /\ mons = <<>>
    /\ setts = <<>>

\* C21: inside one monitor tick or one catch-up run, an error while one deposit
\* record is handled leaves the handling of every other record of the batch as
\* it was, changes no record, and no rejection leaves the tick unhandled.
C21_RecordErrorStaysLocal ==
    /\ [][\A i \in DOMAIN mons :
              (MonitorStoreFails(i) \/ MonitorLookup(i, "throws"))
              => /\ \A j \in DOMAIN mons \ {i} : mons'[j] = mons[j]
                 /\ setts' = setts
                 /\ db' = db]_vars
    /\ [][\A i \in DOMAIN setts :
              SettleStoreFails(i)
              => /\ \A j \in DOMAIN setts \ {i} : setts'[j] = setts[j]
                 /\ mons' = mons
                 /\ db' = db]_vars
    /\ [](escaped = {})

\* Of two records of one batch the handling of the first failed and the second
\* was carried through to the credit.
C21_Witness ==
    /\ "Deposit Confirmation Processing Error" \in alerts
    /\ Len(setts) = 2
    /\ setts[1].pc = "done" /\ ~setts[1].credited
    /\ setts[2].credited
    /\ \E u \in Users : \E k \in DOMAIN db[u].deposits :
           db[u].deposits[k].txHash = setts[2].txHash /\ db[u].deposits[k].status = "credited"

\* The deposit records of u: their transaction hashes, in array order.
TxHashesOf(deposits) == [k \in DOMAIN deposits |-> deposits[k].txHash]

\* The step appends one deposit record to the account of u and is the save of a
\* call of recordDetectedDeposit that passed the duplicate test, resolved u from
\* the destination address and found the value at or above the minimum.
CreatedByRecorder(u) ==
    \E i \in DOMAIN recs :
        /\ recs[i].pc = "save" /\ recs'[i].result = "recorded"
        /\ recs[i].user = u
        /\ u = FindByWalletAddress(toLowerCase(recs[i].toAddress))
        /\ recs[i].usdValue >= MIN_DEPOSIT_USD
        /\ db'[u].deposits = Append(db[u].deposits, db'[u].deposits[Len(db'[u].deposits)])
        /\ db'[u].deposits[Len(db'[u].deposits)].txHash = recs[i].txHash
        /\ db'[u].deposits[Len(db'[u].deposits)].usdValue = recs[i].usdValue
        /\ db'[u].deposits[Len(db'[u].deposits)].status = "unconfirmed"

\* C22: a deposit record comes into being only by the save of a call of
\* recordDetectedDeposit that passed the duplicate test, the owner lookup and the
\* minimum-value filter, and it starts as unconfirmed; no step of the recorder,
\* the monitor, the settlement or the catch-up job removes or replaces a record.
C22_CreatedByRecorderNeverRemoved ==
    [][\A u \in Users :
           \/ TxHashesOf(db'[u].deposits) = TxHashesOf(db[u].deposits)
           \/ CreatedByRecorder(u)]_vars

\* A recorded deposit went through confirmation and credit, with a trimming save
\* of the history afterwards, and is still on the account.
C22_Witness ==
    /\ Len(db["u1"].deposits) = 2
    /\ db["u1"].deposits[1].status = "credited"
    /\ db["u1"].deposits[2].status = "credited"
    /\ Len(db["u1"].creditsHistory) = CREDITS_HISTORY_LIMIT
    /\ \E i \in DOMAIN recs : recs[i].result = "recorded"

\* C23: a call of recordDetectedDeposit for a transfer to an address of no
\* account, once it has returned, has created no deposit record and has raised
\* the alert for a deposit to an unassigned address.
C23_UnassignedIsReported ==
    \A i \in DOMAIN recs :
        (recs[i].toAddress \in UnassignedAddresses /\ recs[i].pc = "done")
        => /\ recs[i].result # "recorded"
           /\ "Deposit to Unassigned Address" \in alerts

LedgerQuiet ==
    /\ \A i \in DOMAIN setts : setts[i].pc = "done"
    /\ \A i \in DOMAIN reqs : reqs[i].pc = "done"

\* C25: once the balance-changing calls have returned, the history of every
\* account holds at most CREDITS_HISTORY_LIMIT entries; a save of the trimmed
\* history leaves the balance as it is and leaves in the store the most recent
\* CREDITS_HISTORY_LIMIT entries of what the store held, entries appended by
\* other operations meanwhile included.
C25_HistoryBoundedTrimKeepsRecent ==
    /\ [](LedgerQuiet => \A u \in Users : Len(db[u].creditsHistory) <= CREDITS_HISTORY_LIMIT)
    /\ [][\A i \in DOMAIN setts :
              (setts[i].pc \in {"trim", "catchSave"} /\ setts'[i].pc # setts[i].pc
               /\ db' # db)
              => /\ db'[setts[i].user].credits = db[setts[i].user].credits
                 /\ db'[setts[i].user].creditsHistory =
                        SliceLast(db[setts[i].user].creditsHistory, CREDITS_HISTORY_LIMIT)]_vars

\* C26: a sweep of ETH hands the node exactly the balance less the maximum gas
\* cost and hands it nothing when the balance is at or below that cost; a sweep of
\* the token hands the node exactly the token balance and nothing when the token
\* balance is zero or the ETH balance is below the gas cost; value and gas
\* together never exceed what the address was found to hold.
C26_SweepAmounts ==
    \A n \in DOMAIN sweepCalls :
        LET c == sweepCalls[n]
            ethCost == MaxGasCost(ETH_GAS_LIMIT, c.gasPrices)
            usdtCost == MaxGasCost(USDT_GAS_LIMIT, c.gasPrices)
        IN IF c.asset = "ETH"
           THEN /\ c.result.broadcast <=> c.ethBalance > ethCost
                /\ c.result.broadcast => c.result.value = c.ethBalance - ethCost
                /\ c.result.value + ethCost <= c.ethBalance \/ ~c.result.broadcast
           ELSE /\ c.result.broadcast
                    <=> (c.configured /\ c.usdtBalance > 0 /\ c.ethBalance >= usdtCost)
                /\ c.result.broadcast => c.result.value = c.usdtBalance
                /\ ~c.result.broadcast => c.result.value = 0

\* A sweep of ETH was refused with the balance equal to the gas cost.
C26_Witness ==
    \E n \in DOMAIN sweepCalls :
        /\ sweepCalls[n].asset = "ETH"
        /\ sweepCalls[n].ethBalance = MaxGasCost(ETH_GAS_LIMIT, sweepCalls[n].gasPrices)
        /\ sweepCalls[n].result.reason = "insufficient_for_gas"


\* C27: a call of getPriceInUSD that finds a cache entry younger than the TTL
\* returns its price without fetching; a fetch that fails or brings an invalid
\* price (not a number, or not positive) returns the cached price if there is
\* one and throws only if there is none; no cache entry and no returned price is
\* ever zero or negative.
C27_PriceCacheAndFallback ==
    /\ [][Len(priceCalls') > Len(priceCalls)
              => LET call == priceCalls'[Len(priceCalls')]
                 IN (/\ call.asset \in DOMAIN priceCache
                     /\ clock - priceCache[call.asset].timestamp < PRICE_CACHE_TTL)
                        => /\ call.pc = "done"
                           /\ call.result = PriceReturned(priceCache[call.asset].price, FALSE)]_vars
    /\ [][\A i \in DOMAIN priceCalls :
              (priceCalls[i].pc = "fetch" /\ priceCalls'[i].pc = "done"
                   /\ priceCache' = priceCache)
                  => IF priceCalls[i].asset \in DOMAIN priceCache
                     THEN priceCalls'[i].result
                              = PriceReturned(priceCache[priceCalls[i].asset].price, TRUE)
                     ELSE priceCalls'[i].result.kind = "throws"]_vars
    /\ [][\A i \in DOMAIN priceCalls :
              (priceCalls[i].pc = "fetch" /\ priceCalls'[i].pc = "done"
                   /\ priceCache' # priceCache)
                  => /\ priceCalls'[i].result.kind = "price"
                     /\ priceCache'[priceCalls[i].asset].price = priceCalls'[i].result.price]_vars
    /\ [](/\ \A k \in DOMAIN priceCache : priceCache[k].price > 0
          /\ \A i \in DOMAIN priceCalls :
                 (priceCalls[i].pc = "done" /\ priceCalls[i].result.kind = "price")
                     => priceCalls[i].result.price > 0)

\* One call was answered from the fresh cache without a fetch, and another, made
\* once the entry had aged past the TTL, fetched, failed and returned the stale price.
C27_Witness ==
    /\ \E i \in DOMAIN priceCalls :
           /\ priceCalls[i].pc = "done"
           /\ priceCalls[i].result.kind = "price"
           /\ priceCalls[i].result.fetched
           /\ priceCalls[i].asset \in DOMAIN priceCache
           /\ priceCalls[i].now - priceCache[priceCalls[i].asset].timestamp >= PRICE_CACHE_TTL
           /\ priceCalls[i].result.price = priceCache[priceCalls[i].asset].price
    /\ \E n \in DOMAIN priceCalls :
           /\ priceCalls[n].pc = "done"
           /\ priceCalls[n].result.kind = "price"
           /\ ~priceCalls[n].result.fetched


\* C28: of the checks that monitor ticks have in flight on one deposit record,
\* at most one writes the step from unconfirmed to confirmed and dispatches
\* settlement: a check that saves "confirmed" finds the stored record still
\* unconfirmed and no settlement call for its transaction dispatched before.
C28_OneConfirmWriteOneDispatch ==
    [][\A i \in DOMAIN mons :
           (mons[i].pc = "save" /\ mons'[i].pc # "save" /\ mons[i].receipt = "enough")
               => /\ db[mons[i].user].deposits[mons[i].idx].status = "unconfirmed"
                  /\ \A s \in DOMAIN setts : setts[s].txHash # mons[i].txHash]_vars


\* C29: once shutdownDepositListener has returned the listener is down and
\* stays down: no provider holds a connection, no interval timer is armed, the
\* flag is unset, and no later step opens a connection or arms a timer.
C29_StaysDownAfterShutdown ==
    shutdownCalled
        => /\ provider = 0
           /\ liveProviders = {}
           /\ liveTimers = {}
           /\ ~websocketProviderConnected


\* C30: at most one setTimeout(startDepositListener, 5000) is pending at any
\* time, also when the error event fires while a call of startDepositListener is
\* suspended at an await and that call then fails too.
C30_AtMostOneRestartPending == pendingRestarts <= 1


\* C31: whenever websocketProviderConnected is true the module holds a provider
\* and both interval timers, the registry refresh and the confirmation monitor,
\* are armed under the handles the module holds.
C31_ConnectedHasProviderAndTimers ==
    websocketProviderConnected
        => /\ provider # 0
           /\ provider \in liveProviders
           /\ Timer(userAddressRefreshInterval, "refresh") \in liveTimers
           /\ Timer(confirmationMonitorInterval, "monitor") \in liveTimers


\* C32: every transfer handed to the recorder whose destination is the wallet
\* address of an account, and which the minimum-value filter did not turn away,
\* ends with a deposit record of its transaction on that account, also when the
\* same transaction carries a transfer to another account.
C32_EveryTransferRecordedOnOwner ==
    \A i \in DOMAIN recs :
        LET owner == FindByWalletAddress(toLowerCase(recs[i].toAddress))
        IN (recs[i].pc = "done" /\ owner # NoUser /\ recs[i].result # "below_minimum")
               => HoldsTx(owner, recs[i].txHash)


\* The stake creations and withdrawal requests on u whose debit reached the store.
IsDebit(r) == r.kind \in {"stake", "withdrawal"} /\ r.result = "saved"
DebitsOn(u) == SelectSeq(reqs, LAMBDA r : r.user = u /\ IsDebit(r))

\* C33: whatever the interleaving of stake creations and withdrawal requests on
\* an account, its balance is never negative and the amounts debited add up to
\* no more than the balance that was available.
C33_DebitsWithinBalance ==
    \A u \in AccountHolders :
        /\ db[u].credits >= 0
        /\ SumAmounts(DebitsOn(u), Len(DebitsOn(u))) <= QUICK_MIN_CREDITS


\* The fail requests for withdrawal id on u whose refund reached the store.
RefundsOf(u, id) ==
    {i \in DOMAIN reqs :
         /\ reqs[i].kind = "fail" /\ reqs[i].user = u /\ reqs[i].withdrawalId = id
         /\ reqs[i].pc = "trimSave" \/ (reqs[i].pc = "done" /\ reqs[i].result = "saved")}

\* C34: whatever the interleaving of admin fail and complete calls, a
\* withdrawal is refunded at most once, and a refunded withdrawal is in status
\* failed, never completed.
C34_RefundedOnceOnlyIfFailed ==
    \A id \in WithdrawalIds :
        /\ Cardinality(RefundsOf("u1", id)) <= 1
        /\ RefundsOf("u1", id) # {}
               => \A k \in DOMAIN db["u1"].withdrawals :
                      db["u1"].withdrawals[k].id = id
                          => db["u1"].withdrawals[k].status = "failed"


\* C35: a complete call changes no withdrawal but the one whose id is the
\* withdrawalId of the call, and that one only if it is pending: every other
\* withdrawal of the account, and every withdrawal already completed or failed,
\* keeps its status, its processed date and its transaction hash.
C35_CompleteChangesOnlyItsPendingWithdrawal ==
    [][\A i \in DOMAIN reqs :
           (reqs[i].kind = "complete" /\ reqs[i].pc = "read" /\ reqs'[i].pc = "done")
               => \A k \in DOMAIN db[reqs[i].user].withdrawals :
                      db'[reqs[i].user].withdrawals[k] # db[reqs[i].user].withdrawals[k]
                          => /\ db[reqs[i].user].withdrawals[k].id = reqs[i].withdrawalId
                             /\ db[reqs[i].user].withdrawals[k].status = "pending"]_vars


\* What the daily job has credited for one stake according to the stake itself:
\* the reward of the days paid, and the principal once the stake is completed.
CreditedFor(stake) ==
    stake.dailyReward * stake.daysPaid
        + (IF stake.status = "completed" THEN stake.amount ELSE 0)

RECURSIVE SumCreditedFor(_, _)
\* The sum of CreditedFor over the first n stakes.
SumCreditedFor(stakes, n) ==
    IF n = 0 THEN 0 ELSE SumCreditedFor(stakes, n - 1) + CreditedFor(stakes[n])

\* C36: after any number of runs of the daily job, no stake has more days paid
\* than its duration, a stake is completed exactly when its days paid have reached
\* the duration, and the balance holds, for every stake, dailyReward times the
\* days paid (so never more than dailyReward times duration) plus the principal
\* once, from the completion on.
C36_StakeAccounting ==
    \A u \in Users :
        /\ \A k \in DOMAIN db[u].stakes :
               /\ db[u].stakes[k].daysPaid <= db[u].stakes[k].duration
               /\ db[u].stakes[k].status = "completed"
                      <=> db[u].stakes[k].daysPaid = db[u].stakes[k].duration
        /\ db[u].credits = SumCreditedFor(db[u].stakes, Len(db[u].stakes))

\* Both stakes of an account are completed, after a run whose save failed and
\* after runs that paid several days at once or found more days than remained.
C36_Witness ==
    /\ Len(db["u1"].stakes) = 2
    /\ \A k \in DOMAIN db["u1"].stakes : db["u1"].stakes[k].status = "completed"
    /\ db["u1"].credits > 0
    /\ "Daily Rewards Save Error" \in alerts
    /\ today > QUICK_DURATION

\* C37: a run of the daily job starts only when none is in progress; a trigger
\* that finds the flag set changes nothing; the flag is set exactly while a run
\* is in progress, so every exit, by completion or by error, clears it, and a
\* run in progress always ends with the flag cleared.
C37_OneRunAtATime ==
    /\ [](isDailyRewardsJobRunning <=> rewardRun.pc # "idle")
    /\ [][skippedRuns' # skippedRuns
              => /\ isDailyRewardsJobRunning
                 /\ UNCHANGED <<db, isDailyRewardsJobRunning, rewardRun, rewardTasks, alerts>>]_vars
    /\ [][(rewardRun'.pc = "cursor" /\ rewardTasks' = <<>>
              /\ (rewardRun' # rewardRun \/ rewardTasks' # rewardTasks))
              => rewardRun.pc = "idle" /\ ~isDailyRewardsJobRunning]_vars
    /\ (isDailyRewardsJobRunning ~> ~isDailyRewardsJobRunning)

\* A trigger was turned away during a run, a run ended by the failure of its
\* cursor, and the flag is clear again.
C37_Witness ==
    /\ skippedRuns = MaxSkippedRuns
    /\ "Daily Rewards Cron Job Failed" \in alerts
    /\ ~isDailyRewardsJobRunning
    /\ \E u \in Users : \E k \in DOMAIN db[u].stakes : db[u].stakes[k].daysPaid > 0


\* C38: a call of loadUserAddresses whose query fails leaves userAddresses as
\* it was, raises the alert 'Deposit Listener Error', and touches neither the
\* timers nor the provider nor the calls of startDepositListener; nothing is
\* rejected unhandled.
C38_FailedLoadKeepsRegistry ==
    /\ [][\A j \in DOMAIN loads :
              (loads[j].pc = "find" /\ loads'[j].pc = "done")
                  => /\ userAddresses' = userAddresses
                     /\ usdtFilter' = usdtFilter
                     /\ "Deposit Listener Error" \in alerts'
                     /\ UNCHANGED <<liveTimers, userAddressRefreshInterval,
                                    confirmationMonitorInterval, provider, liveProviders,
                                    websocketProviderConnected, starts, pendingRestarts>>]_vars
    /\ [](escaped = {})

\* The load awaited by startDepositListener failed, the listener went on to
\* run with both timers armed and the addresses it had, and a later refresh by
\* the timer went through.
C38_Witness ==
    /\ "Deposit Listener Error" \in alerts
    /\ websocketProviderConnected
    /\ userAddresses # {}
    /\ Timer(userAddressRefreshInterval, "refresh") \in liveTimers
    /\ \E j \in DOMAIN loads : loads[j].owner = 0 /\ loads[j].pc = "done"
    /\ \E i \in DOMAIN starts : starts[i].pc = "running"


\* The last call of a handler, when the step delivered a notification.
Delivered39 == notifications'[Len(notifications')]
DispatchedBefore(h) == IF h \in DOMAIN notifications THEN notifications[h].dispatched ELSE 0

\* C39: a block or Transfer notification delivered while the connected flag is
\* false or the provider handle is null is ignored: the handler returns without
\* a call of getBlock and without a call of recordDetectedDeposit, it never
\* does anything later, and every call of recordDetectedDeposit made by a
\* handler belongs to a notification that was not ignored.
C39_DisconnectedNotificationIgnored ==
    /\ [][(Len(notifications') > Len(notifications)
             /\ (~websocketProviderConnected \/ provider = 0))
            => /\ Delivered39.pc = "ignored"
               /\ Delivered39.getBlockCalls = 0
               /\ Delivered39.dispatched = 0
               /\ recs' = recs]_vars
    /\ [][\A h \in DOMAIN notifications :
              notifications[h].pc = "ignored" => notifications'[h] = notifications[h]]_vars
    /\ [][recs' # recs
            => \E h \in DOMAIN notifications' :
                   /\ notifications'[h].pc # "ignored"
                   /\ notifications'[h].dispatched - DispatchedBefore(h)
                          = Len(recs') - Len(recs)]_vars

\* A block and a Transfer event were delivered by a provider that still has
\* its listeners while the flag was false, and both were ignored; no call of
\* the recorder exists.
C39_Witness ==
    /\ \E h \in DOMAIN notifications :
           notifications[h].kind = "block" /\ notifications[h].pc = "ignored"
    /\ \E h \in DOMAIN notifications :
           notifications[h].kind = "Transfer" /\ notifications[h].pc = "ignored"
    /\ ~websocketProviderConnected
    /\ recs = <<>>

====
